---------------------------- MODULE Spec2Model ----------------------------
(***************************************************************************)
(* Session / liveness engine of the FIITMETEO UDP gateway (src/server.py)  *)
(* together with the parts of the sensor simulator (src/tester.py) that    *)
(* drive it.                                                               *)
(*                                                                         *)
(* Conventions                                                             *)
(*  - A JSON object (a Python dict) is a TLA+ record whose DOMAIN is the   *)
(*    set of keys that are present; dict.get(k, d) is Get(m, k, d).        *)
(*  - Python's None is None among strings and NoneInt among integers.      *)
(*  - time.time() is the variable clock, in whole seconds.                 *)
(*  - A 32-bit unsigned integer is the pair <<hi, lo>> of its 16-bit       *)
(*    halves (TLC's integers are signed 32-bit, so 0xFFFFFFFF is not a     *)
(*    TLC integer).                                                        *)
(*  - A payload (the "data" dict) is the sequence of its <<key, value>>    *)
(*    items in insertion order; a key is the sequence of its UTF-8 bytes   *)
(*    and a value is a natural number.                                     *)
(***************************************************************************)
EXTENDS Integers, Sequences, FiniteSets, TLC

---------------------------------------------------------------------------
(* Bounds of the model                                                     *)

MaxTime == 1        \* the seconds the clock of the simulator scenario runs
Epoch == 100        \* time.time() when the server starts

---------------------------------------------------------------------------
(* Python values                                                           *)

None == "None"
NoneInt == -1

Get(m, k, d) == IF k \in DOMAIN m THEN m[k] ELSE d

\* dict[k] = v
Put(f, k, v) == [x \in (DOMAIN f) \cup {k} |-> IF x = k THEN v ELSE f[x]]

\* dict.pop(k, None) leaves this dict behind
Pop(f, k) == [x \in (DOMAIN f) \ {k} |-> f[x]]

\* the slip: only an absent string counts as none
NotStr_none(v) == v = None

\* "not v" for a string / for an integer
NotStr(v) == v \in {None, ""}
NotInt(v) == v \in {NoneInt, 0}

---------------------------------------------------------------------------
(* 32-bit words: <<hi, lo>>, the two 16-bit halves                         *)

Half == 65536
Word32 == (0..(Half - 1)) \X (0..(Half - 1))

RECURSIVE XorBits(_, _, _)
XorBits(a, b, n) ==
    IF n = 0 THEN 0
    ELSE ((a + b) % 2) + 2 * XorBits(a \div 2, b \div 2, n - 1)

Xor(a, b) == <<XorBits(a[1], b[1], 16), XorBits(a[2], b[2], 16)>>

\* a >> 1
Shr1(a) == <<a[1] \div 2, (a[2] \div 2) + (a[1] % 2) * (Half \div 2)>>

Ones32 == <<Half - 1, Half - 1>>

\* 0xEDB88320
Poly == <<60856, 33568>>

\* 0x00FFFF00
FlipMask == <<255, 65280>>

---------------------------------------------------------------------------
(* crc32_bytes                                                             *)

\* mask = -(crc & 1); crc = (crc >> 1) ^ (0xEDB88320 & mask)
CrcShift ==
    [crc \in Word32 |->
        IF crc[2] % 2 = 1 THEN Xor(Shr1(crc), Poly) ELSE Shr1(crc)]

\* for _ in range(8)
CrcRounds ==
    [crc \in Word32 |->
        CrcShift[CrcShift[CrcShift[CrcShift[
        CrcShift[CrcShift[CrcShift[CrcShift[crc]]]]]]]]]

\* crc ^= b, then the eight rounds
CrcByte == [p \in Word32 \X (0..255) |-> CrcRounds[Xor(p[1], <<0, p[2]>>)]]

\* for b in data: ...   The bytes lo..hi are folded into crc, left half
\* first (the evaluation stack stays logarithmic in len(data)).
CrcLoop(data) ==
    LET n == Len(data)
        c[p \in (1..n) \X (1..n) \X Word32] ==
            LET lo == p[1]
                hi == p[2]
                mid == (lo + hi) \div 2
            IN  IF lo = hi THEN CrcByte[<<p[3], data[lo]>>]
                ELSE c[<<mid + 1, hi, c[<<lo, mid, p[3]>>]>>]
    IN  IF n = 0 THEN Ones32 ELSE c[<<1, n, Ones32>>]

crc32_bytes(data) == Xor(CrcLoop(data), Ones32)

---------------------------------------------------------------------------
(* json.dumps(data_obj, separators=(",", ":"), sort_keys=True)             *)

\* lexicographic order of two keys (byte sequences)
RECURSIVE KeyLess(_, _)
KeyLess(a, b) ==
    IF a = <<>> THEN b # <<>>
    ELSE IF b = <<>> THEN FALSE
    ELSE IF Head(a) # Head(b) THEN Head(a) < Head(b)
    ELSE KeyLess(Tail(a), Tail(b))

\* the items of a dict ordered by key
RECURSIVE InsertItem(_, _)
InsertItem(item, sorted) ==
    IF sorted = <<>> THEN <<item>>
    ELSE IF KeyLess(item[1], Head(sorted)[1]) THEN <<item>> \o sorted
    ELSE <<Head(sorted)>> \o InsertItem(item, Tail(sorted))

\* the slip: the items as the dict holds them
SortItems_asis(items) == items

RECURSIVE SortItems(_)
SortItems(items) ==
    IF items = <<>> THEN <<>>
    ELSE InsertItem(Head(items), SortItems(Tail(items)))

\* the decimal digits of a natural number, as bytes
RECURSIVE Digits(_)
Digits(n) == IF n < 10 THEN <<48 + n>> ELSE Digits(n \div 10) \o <<48 + (n % 10)>>

\* "key":value
DumpItem(item) == <<34>> \o item[1] \o <<34, 58>> \o Digits(item[2])

RECURSIVE JoinItems(_)
JoinItems(items) ==
    IF items = <<>> THEN <<>>
    ELSE IF Len(items) = 1 THEN DumpItem(items[1])
    ELSE DumpItem(items[1]) \o <<44>> \o JoinItems(Tail(items))

\* with sort_keys
DumpsSorted(data_obj) == <<123>> \o JoinItems(SortItems(data_obj)) \o <<125>>

crc32_of_json_data(data_obj) == crc32_bytes(DumpsSorted(data_obj))

---------------------------------------------------------------------------
(* JSON values of the crc32 field                                          *)

JNone == [kind |-> "none"]
JStr(str) == [kind |-> "str", val |-> str]
JInt(w) == [kind |-> "int", val |-> w]
\* json.loads turns true into True, which is an int equal to 1
JTrue == [kind |-> "bool", val |-> <<0, 1>>]

\* isinstance(v, int): bool is a subclass of int
IsInstanceInt(v) == v.kind \in {"int", "bool"}

---------------------------------------------------------------------------
(* Program constants                                                       *)

TokenMin == 100000      \* random.randint(100000, 999999)
TokenMax == 999999
SilenceLimit == 15      \* now - last < 15.0
ProbeWait == 1          \* deadline = now + 1.0
ProbeBackoff == 5       \* next = now + 5.0
MaxAttempts == 10       \* st["attempts"] < 10
ResendGap == 1          \* now - last_req >= 1.0
ProbeGap == ProbeWait + ProbeBackoff
AutoPeriod == 10        \* tester.py: period = 10.0
AckOnPing == 3          \* tester.py: if c >= 3

---------------------------------------------------------------------------
(* The values the environment draws its datagrams from                     *)

Ids == {"T001", "W001"}
Categories == {"ThermoNode", "WindSense"}
Tokens == {TokenMin, TokenMax}
NoAddr == <<>>

K_co2 == <<99, 111, 50>>                    \* "co2"
K_ozone == <<111, 122, 111, 110, 101>>      \* "ozone"

Payload1 == << <<K_ozone, 7>>, <<K_co2, 300>> >>
\* a payload whose checksum is 1
PayloadOne == << <<K_co2, 2117743783>> >>
Payload2 == << <<K_co2, 400>> >>
Payloads == {<<>>, Payload1, Payload2, PayloadOne}

\* crc32_of_json_data on the payloads of the model, computed once
CrcTable == [data_obj \in Payloads |-> crc32_of_json_data(data_obj)]

---------------------------------------------------------------------------
(* State                                                                   *)

VARIABLES
    tokens,             \* Server.tokens: sensor_id -> token
    sensor_addr,        \* Server.sensor_addr: sensor_id -> addr
    id_type,            \* Server.id_type: sensor_id -> sensor_type
    active_by_type,     \* Server.active_by_type: sensor_type -> sensor_id
    last_seen,          \* Server.last_seen: sensor_id -> time
    probe,              \* Server._probe: sensor_id -> {attempts, waiting, deadline, next}
    last_resend_req,    \* Server._last_resend_req: sensor_id -> time
    listening,          \* Server.listening
    mon_running,        \* Server._mon_running
    menu_pc,            \* position of the main thread in menu
    listen_msg,         \* the datagram recvfrom has returned to listen_loop
    listen_pc,          \* "recv" while the thread of listen_loop runs, "dead" once
                        \* an exception has ended it
    mon_pc,             \* position of the monitor thread in _monitor_loop
    mon_now,            \* its local now
    mon_ids,            \* the sensor ids its for loop has still to visit
    mon_sid,            \* its local sensor_id
    mon_st,             \* the dict its local st refers to
    mon_linked,         \* whether self._probe[sensor_id] is still that dict
    mon_addr,           \* its local addr
    clock,              \* time.time()
    t_tokens,           \* Tester.tokens: sensor_id -> token
    resend_on_request,  \* Tester.resend_on_request: sensor_id -> message
    pending_last,       \* Tester.pending_last: sensor_id -> message
    last_sent_ok,       \* Tester.last_sent_ok: sensor_id -> message
    t_inbox,            \* datagrams on their way to the tester's _rx_loop
    paused_sensors,     \* Tester.paused_sensors
    activity_ping_count,    \* Tester.activity_ping_count: sensor_id -> count
    auto_ids,           \* the sensors the for loop of auto_loop has still to visit
    auto_t0,            \* t0 of auto_loop: when its latest round began
    rx,                 \* the datagram the last step of the server handled
    tx,                 \* the datagrams the last step passed to safe_send
    notes,              \* the DISCONNECTED / RECONNECTED lines the last step printed
    g_resend,           \* history: sensor_id -> time of the last request_resend sent for it
    g_probed,           \* history: the sensors sent an activity_check since their
                        \* last data message or activity_ack with the right token
    g_attempt,          \* history: sensor_id -> the attempt number of the last
                        \* activity_check sent to it since that message
    g_check_at,         \* history: sensor_id -> time of the last activity_check sent to it
    g_disc_at,          \* history: sensor_id -> time of the last DISCONNECTED printed for it
    g_await,            \* history: the sensors sent an activity_check since their
                        \* last DISCONNECTED
    g_history,          \* the histories this run keeps: "probes" for g_attempt,
                        \* g_check_at, g_disc_at, g_await and g_renewed,
                        \* "records" for g_records, "log" for g_log
    g_log,              \* history: sensor_id -> the register_ack, activity_check,
                        \* DISCONNECTED and RECONNECTED the server has produced
                        \* for it, in order
    g_records,          \* history: the <<sensor_id, token, addr, sensor_type>> the
                        \* maps of the server have held together at some time
    g_renewed,          \* history: sensor_id -> whether an activity_check went to it
                        \* since a data message or activity_ack removed its probe
                        \* state with all attempts used
    crc_pc,             \* the checksum exchange: "idle", "sent" or "checked"
    crc_msg,            \* the payload the tester summed, its text on the wire
                        \* and the tester's crc32
    crc_got             \* the payload the server decoded and the server's crc32

server == <<tokens, sensor_addr, id_type, active_by_type, last_seen, probe,
            last_resend_req>>
monitor == <<mon_pc, mon_now, mon_ids, mon_sid, mon_st, mon_linked, mon_addr>>
tester == <<t_tokens, resend_on_request, pending_last, last_sent_ok, t_inbox,
            paused_sensors, activity_ping_count, auto_ids>>
menu == <<listening, mon_running, menu_pc, listen_msg>>
vars == <<tokens, sensor_addr, id_type, active_by_type, last_seen, probe,
          last_resend_req, listening, mon_running, menu_pc, listen_msg,
          listen_pc, mon_pc, mon_now, mon_ids, mon_sid, mon_st,
          mon_linked, mon_addr, clock, t_tokens, resend_on_request, pending_last,
          last_sent_ok, t_inbox, paused_sensors, activity_ping_count,
          auto_ids, auto_t0, rx, tx, notes, g_resend, g_probed,
          g_attempt, g_check_at, g_disc_at, g_await, g_history,
          g_records, g_renewed, g_log, crc_pc, crc_msg, crc_got>>
checksum == <<crc_pc, crc_msg, crc_got>>

Empty == [x \in {} |-> 0]
NoRx == [op |-> "none"]
NoSt == [attempts |-> 0, waiting |-> FALSE, deadline |-> 0, next |-> 0]

\* Server.__init__ and Tester.__init__
Start ==
    /\ tokens = Empty
    /\ sensor_addr = Empty
    /\ id_type = Empty
    /\ active_by_type = Empty
    /\ last_seen = Empty
    /\ probe = Empty
    /\ last_resend_req = Empty
    /\ listening = TRUE
    /\ mon_running = TRUE
    /\ menu_pc = "menu"
    /\ listen_msg = NoRx
    /\ listen_pc = "recv"
    /\ mon_pc = "sleep"
    /\ mon_now = 0
    /\ mon_ids = {}
    /\ mon_sid = None
    /\ mon_st = NoSt
    /\ mon_linked = FALSE
    /\ mon_addr = NoAddr
    /\ clock = Epoch
    /\ t_tokens = Empty
    /\ resend_on_request = Empty
    /\ pending_last = Empty
    /\ last_sent_ok = Empty
    /\ t_inbox = {}
    /\ paused_sensors = {}
    /\ activity_ping_count = Empty
    /\ auto_ids = {}
    /\ auto_t0 = Epoch - AutoPeriod
    /\ rx = NoRx
    /\ tx = {}
    /\ notes = {}
    /\ g_resend = Empty
    /\ g_probed = {}
    /\ g_attempt = Empty
    /\ g_check_at = Empty
    /\ g_disc_at = Empty
    /\ g_await = {}
    /\ g_renewed = Empty
    /\ g_records = {}
    /\ g_log = Empty
    /\ crc_pc = "idle"
    /\ crc_msg = NoRx
    /\ crc_got = NoRx

Init == Start /\ g_history = {}

\* the same start, for a run that keeps the history of the probes
InitTimed == Start /\ g_history = {"probes"}

\* the same start, for a run that keeps the history of the records
InitMoved == Start /\ g_history = {"records"}

---------------------------------------------------------------------------
(* What a step lets an observer see                                        *)

\* the datagrams of one type among those sent
Sent(sent, type) == {d[2] : d \in {e \in sent : e[2].type = type}}

\* the message the step handled carries the token stored for its sensor_id
RightToken(message) ==
    /\ "sensor_id" \in DOMAIN message
    /\ "token" \in DOMAIN message
    /\ message.sensor_id \in DOMAIN tokens
    /\ tokens[message.sensor_id] = message.token

\* the history follows from what the step received and sent
Observe ==
    /\ g_resend' =
         LET ids == {r.sensor_id : r \in Sent(tx', "request_resend")}
         IN  [i \in (DOMAIN g_resend) \cup ids |->
                IF i \in ids THEN clock' ELSE g_resend[i]]
    /\ g_probed' =
         LET cleared == IF /\ rx'.op \in {"data", "activity_ack"}
                           /\ RightToken(rx'.msg)
                        THEN {rx'.msg.sensor_id}
                        ELSE {}
         IN  (g_probed \ cleared)
               \cup {r.sensor_id : r \in Sent(tx', "activity_check")}
    /\ g_attempt' =
         LET cleared == IF /\ rx'.op \in {"data", "activity_ack"}
                           /\ RightToken(rx'.msg)
                        THEN {rx'.msg.sensor_id}
                        ELSE {}
             checks == IF "probes" \in g_history THEN Sent(tx', "activity_check") ELSE {}
             ids == {r.sensor_id : r \in checks}
         IN  [i \in ((DOMAIN g_attempt) \ cleared) \cup ids |->
                IF i \in ids
                THEN (CHOOSE r \in checks : r.sensor_id = i).attempt
                ELSE g_attempt[i]]
    /\ LET checked == IF "probes" \in g_history
                      THEN {r.sensor_id : r \in Sent(tx', "activity_check")}
                      ELSE {}
           lost == IF "probes" \in g_history
                   THEN {n[2] : n \in {e \in notes' : e[1] = "DISCONNECTED"}}
                   ELSE {}
       IN  /\ g_history' = g_history
           /\ g_check_at' = [i \in (DOMAIN g_check_at) \cup checked |->
                                IF i \in checked THEN clock' ELSE g_check_at[i]]
           /\ g_disc_at' = [i \in (DOMAIN g_disc_at) \cup lost |->
                               IF i \in lost THEN clock' ELSE g_disc_at[i]]
           /\ g_await' = (g_await \ lost) \cup checked
    /\ g_renewed' =
         LET back == IF /\ "probes" \in g_history
                        /\ rx'.op \in {"data", "activity_ack"}
                        /\ RightToken(rx'.msg)
                        /\ rx'.msg.sensor_id \in DOMAIN probe
                        /\ probe[rx'.msg.sensor_id].attempts = MaxAttempts
                     THEN {rx'.msg.sensor_id}
                     ELSE {}
             checked == {r.sensor_id : r \in Sent(tx', "activity_check")}
         IN  [i \in (DOMAIN g_renewed) \cup back |->
                IF i \in back THEN FALSE
                ELSE IF i \in checked THEN TRUE
                ELSE g_renewed[i]]
    /\ g_records' =
         IF "records" \in g_history
         THEN g_records \cup {<<i, tokens'[i], Get(sensor_addr', i, NoAddr),
                                  Get(id_type', i, "UNKNOWN")>> :
                                    i \in DOMAIN tokens'}
         ELSE g_records
    /\ g_log' =
         IF "log" \in g_history
         THEN LET accepted == IF rx'.op = "register"
                              THEN {r.sensor_id : r \in Sent(tx', "register_ack")}
                              ELSE {}
                  checks == Sent(tx', "activity_check")
                  lost == {n[2] : n \in {e \in notes' : e[1] = "DISCONNECTED"}}
                  back == {n[2] : n \in {e \in notes' : e[1] = "RECONNECTED"}}
                  ids == accepted \cup {r.sensor_id : r \in checks} \cup lost
                           \cup back
                  event(i) ==
                      IF i \in accepted THEN <<"register_ack", 0>>
                      ELSE IF i \in lost THEN <<"DISCONNECTED", 0>>
                      ELSE IF i \in back THEN <<"RECONNECTED", 0>>
                      ELSE <<"activity_check",
                             (CHOOSE r \in checks : r.sensor_id = i).attempt>>
              IN  [i \in (DOMAIN g_log) \cup ids |->
                     IF i \in ids
                     THEN Append(Get(g_log, i, <<>>), event(i))
                     ELSE g_log[i]]
         ELSE g_log
    /\ UNCHANGED <<checksum, auto_t0>>

---------------------------------------------------------------------------
(* Handlers of the receive loop                                            *)

Handled(op, message, addr) ==
    /\ rx' = [op |-> op, msg |-> message, addr |-> addr]
    /\ UNCHANGED <<mon_pc, mon_now, mon_ids, mon_sid, mon_st, mon_addr, clock>>

\* the handler leaves self._probe alone
KeepProbe == UNCHANGED <<probe, mon_linked>>

\* the slip: a probe state with all attempts used is beyond recovery
PopProbe_spent(sensor_id) ==
    IF sensor_id \in DOMAIN probe /\ probe[sensor_id].attempts >= MaxAttempts
    THEN KeepProbe
    ELSE /\ probe' = Pop(probe, sensor_id)
         /\ mon_linked' = (mon_linked /\ mon_sid # sensor_id)

\* self._probe.pop(sensor_id, None): the dict the monitor may hold in st is
\* no longer the one in self._probe
PopProbe(sensor_id) ==
    /\ probe' = Pop(probe, sensor_id)
    /\ mon_linked' = (mon_linked /\ mon_sid # sensor_id)

\* a handler that returns without touching anything
Untouched == UNCHANGED <<server, mon_linked>>

\* the slip: a category with an active sensor takes no registration at all
RegisterBusy_any(active, sensor_id) == active # None

\* the slip: a sensor that has used all its attempts gives up its category
RegisterBusy_spent(active, sensor_id) ==
    /\ active # None
    /\ active # sensor_id
    /\ ~(active \in DOMAIN probe /\ probe[active].attempts = MaxAttempts)

\* if active is not None and active != sensor_id
RegisterBusy(active, sensor_id) == active # None /\ active # sensor_id

\* the slip: the denial names the requester instead of the active sensor
RegisterDeny_echo(sensor_id, sensor_type, active, addr) ==
    /\ tx' = {<<addr, [type |-> "register_denied",
                       reason |-> "type_busy",
                       sensor_type |-> sensor_type,
                       active_sensor_id |-> sensor_id,
                       timestamp |-> clock]>>}
    /\ Untouched

\* the slip: the denial notes the requester's address and time
RegisterDeny_touch(sensor_id, sensor_type, active, addr) ==
    /\ tx' = {<<addr, [type |-> "register_denied",
                       reason |-> "type_busy",
                       sensor_type |-> sensor_type,
                       active_sensor_id |-> active,
                       timestamp |-> clock]>>}
    /\ sensor_addr' = Put(sensor_addr, sensor_id, addr)
    /\ last_seen' = Put(last_seen, sensor_id, clock)
    /\ UNCHANGED <<tokens, id_type, active_by_type, last_resend_req>>
    /\ KeepProbe

\* the register_denied branch of handle_register
RegisterDeny(sensor_id, sensor_type, active, addr) ==
    /\ tx' = {<<addr, [type |-> "register_denied",
                       reason |-> "type_busy",
                       sensor_type |-> sensor_type,
                       active_sensor_id |-> active,
                       timestamp |-> clock]>>}
    /\ Untouched

\* the slip: a registration starts the probing of its sensor afresh
RegisterAccept_fresh(sensor_id, sensor_type, addr) ==
    \E token \in Tokens :
        /\ tokens' = Put(tokens, sensor_id, token)
        /\ sensor_addr' = Put(sensor_addr, sensor_id, addr)
        /\ id_type' = Put(id_type, sensor_id, sensor_type)
        /\ active_by_type' = Put(active_by_type, sensor_type, sensor_id)
        /\ last_seen' = Put(last_seen, sensor_id, clock)
        /\ tx' = {<<addr, [type |-> "register_ack",
                           sensor_id |-> sensor_id,
                           token |-> token,
                           timestamp |-> clock]>>}
        /\ UNCHANGED last_resend_req
        /\ PopProbe(sensor_id)

\* the accepting branch of handle_register
RegisterAccept(sensor_id, sensor_type, addr) ==
    \E token \in Tokens :
        /\ tokens' = Put(tokens, sensor_id, token)
        /\ sensor_addr' = Put(sensor_addr, sensor_id, addr)
        /\ id_type' = Put(id_type, sensor_id, sensor_type)
        /\ active_by_type' = Put(active_by_type, sensor_type, sensor_id)
        /\ last_seen' = Put(last_seen, sensor_id, clock)
        /\ tx' = {<<addr, [type |-> "register_ack",
                           sensor_id |-> sensor_id,
                           token |-> token,
                           timestamp |-> clock]>>}
        /\ UNCHANGED last_resend_req
        /\ KeepProbe

\* Server.handle_register
handle_register(message, addr) ==
    LET sensor_id == Get(message, "sensor_id", None)
        sensor_type == Get(message, "sensor_type", "UNKNOWN")
        active == Get(active_by_type, sensor_type, None)
    IN  /\ Handled("register", message, addr)
        /\ notes' = {}
        /\ IF NotStr(sensor_id)
           THEN /\ tx' = {}
                /\ Untouched
           ELSE IF RegisterBusy(active, sensor_id)
           THEN RegisterDeny(sensor_id, sensor_type, active, addr)
           ELSE RegisterAccept(sensor_id, sensor_type, addr)

\* the slip: any probe state counts as a reconnection
Reconnected_any(sensor_id) ==
    IF sensor_id \in DOMAIN probe /\ probe[sensor_id].attempts >= 0
    THEN {<<"RECONNECTED", sensor_id>>}
    ELSE {}

\* st = self._probe.pop(sensor_id, None)
\* if st and st.get("attempts", 0) > 0: print RECONNECTED
Reconnected(sensor_id) ==
    IF sensor_id \in DOMAIN probe /\ probe[sensor_id].attempts > 0
    THEN {<<"RECONNECTED", sensor_id>>}
    ELSE {}

\* Server.handle_activity_ack
handle_activity_ack(message, addr) ==
    LET sensor_id == Get(message, "sensor_id", None)
        token == Get(message, "token", NoneInt)
    IN  /\ Handled("activity_ack", message, addr)
        /\ tx' = {}
        /\ IF NotStr(sensor_id) \/ Get(tokens, sensor_id, NoneInt) # token
           THEN /\ notes' = {}
                /\ Untouched
           ELSE /\ last_seen' = Put(last_seen, sensor_id, clock)
                /\ sensor_addr' = Put(sensor_addr, sensor_id, addr)
                /\ PopProbe(sensor_id)
                /\ notes' = Reconnected(sensor_id)
                /\ UNCHANGED <<tokens, id_type, active_by_type, last_resend_req>>

\* the reply of handle_data
DataReply(type, sensor_id, addr) ==
    {<<addr, [type |-> type, sensor_id |-> sensor_id, timestamp |-> clock]>>}

\* the slip of backup_server.py: the sensor counts as seen, and its probe
\* state is dropped, before the token is looked at
DataInvalidToken_touch(sensor_id, addr) ==
    /\ tx' = DataReply("invalid_token", sensor_id, addr)
    /\ notes' = {}
    /\ last_seen' = Put(last_seen, sensor_id, clock)
    /\ PopProbe(sensor_id)
    /\ UNCHANGED <<tokens, sensor_addr, id_type, active_by_type,
                   last_resend_req>>

\* the two invalid_token branches of handle_data
DataInvalidToken(sensor_id, addr) ==
    /\ tx' = DataReply("invalid_token", sensor_id, addr)
    /\ notes' = {}
    /\ Untouched

\* what handle_data does to a message with the right token before it looks
\* at the payload
DataTouch(sensor_id, sensor_type, addr) ==
    /\ sensor_addr' = Put(sensor_addr, sensor_id, addr)
    /\ id_type' = Put(id_type, sensor_id, sensor_type)
    /\ last_seen' = Put(last_seen, sensor_id, clock)
    /\ PopProbe(sensor_id)
    /\ notes' = Reconnected(sensor_id)
    /\ UNCHANGED <<tokens, active_by_type>>

\* if not isinstance(recv_crc, int) or recv_crc != crc32_of_json_data(data_obj)
IntegrityFails(recv_crc, data_obj) ==
    ~IsInstanceInt(recv_crc) \/ recv_crc.val # CrcTable[data_obj]

\* the slip: no debounce
ResendDue_none(now, last_req) == now - last_req >= 0

\* if now - last_req >= 1.0
ResendDue(now, last_req) == now - last_req >= ResendGap

\* the slip: the debounce is looked at before the checksum, so that it
\* holds back acknowledgements too
DataIntegrity_gated(sensor_id, data_obj, recv_crc, addr) ==
    IF ~ResendDue(clock, Get(last_resend_req, sensor_id, 0))
    THEN /\ tx' = {}
         /\ UNCHANGED last_resend_req
    ELSE IF IntegrityFails(recv_crc, data_obj)
    THEN /\ tx' = DataReply("request_resend", sensor_id, addr)
         /\ last_resend_req' = Put(last_resend_req, sensor_id, clock)
    ELSE /\ tx' = DataReply("data_ack", sensor_id, addr)
         /\ UNCHANGED last_resend_req

\* the slip: no return after the request, so that the acknowledgement
\* follows it
DataIntegrity_both(sensor_id, data_obj, recv_crc, addr) ==
    IF IntegrityFails(recv_crc, data_obj)
       /\ ResendDue(clock, Get(last_resend_req, sensor_id, 0))
    THEN /\ tx' = DataReply("request_resend", sensor_id, addr)
                     \cup DataReply("data_ack", sensor_id, addr)
         /\ last_resend_req' = Put(last_resend_req, sensor_id, clock)
    ELSE IF IntegrityFails(recv_crc, data_obj)
    THEN /\ tx' = {}
         /\ UNCHANGED last_resend_req
    ELSE /\ tx' = DataReply("data_ack", sensor_id, addr)
         /\ UNCHANGED last_resend_req

\* the integrity check of handle_data and its reply
DataIntegrity(sensor_id, data_obj, recv_crc, addr) ==
    IF IntegrityFails(recv_crc, data_obj)
    THEN IF ResendDue(clock, Get(last_resend_req, sensor_id, 0))
         THEN /\ tx' = DataReply("request_resend", sensor_id, addr)
              /\ last_resend_req' = Put(last_resend_req, sensor_id, clock)
         ELSE /\ tx' = {}
              /\ UNCHANGED last_resend_req
    ELSE /\ tx' = DataReply("data_ack", sensor_id, addr)
         /\ UNCHANGED last_resend_req

\* Server.handle_data
handle_data(message, addr) ==
    LET sensor_id == Get(message, "sensor_id", None)
        sensor_type == Get(message, "sensor_type", "UNKNOWN")
        token == Get(message, "token", NoneInt)
        data_obj == Get(message, "data", <<>>)
        recv_crc == Get(message, "crc32", JNone)
    IN  /\ Handled("data", message, addr)
        /\ IF NotStr(sensor_id) \/ NotInt(token)
           THEN DataInvalidToken(sensor_id, addr)
           ELSE IF Get(tokens, sensor_id, NoneInt) # token
           THEN DataInvalidToken(sensor_id, addr)
           ELSE /\ DataTouch(sensor_id, sensor_type, addr)
                /\ DataIntegrity(sensor_id, data_obj, recv_crc, addr)

---------------------------------------------------------------------------
(* Server._monitor_loop, one step per access to the state it shares with   *)
(* the receive loop.  The fields of a probe dict are written by the        *)
(* monitor only; the receive loop removes the dict from self._probe and    *)
(* reads its attempts.                                                     *)

\* a write to a field of st reaches self._probe while st is still in it
SetSt(st) ==
    /\ mon_st' = st
    /\ probe' = IF mon_linked THEN Put(probe, mon_sid, st) ELSE probe

\* a step that receives, sends and prints nothing, and is none of the tester's
Quiet ==
    /\ rx' = NoRx
    /\ tx' = {}
    /\ notes' = {}
    /\ UNCHANGED <<tester, listen_pc, menu>>

\* continue with the next sensor_id of the for loop
MonContinue ==
    /\ mon_pc' = "next"
    /\ mon_sid' = None
    /\ mon_st' = NoSt
    /\ mon_linked' = FALSE
    /\ mon_addr' = NoAddr

\* while ...: now = time.time(); for sensor_id in list(self.tokens.keys())
MonScan ==
    /\ mon_pc = "sleep"
    /\ mon_running /\ listening
    /\ mon_pc' = "next"
    /\ mon_now' = clock
    /\ mon_ids' = DOMAIN tokens
    /\ Quiet
    /\ UNCHANGED <<server, mon_sid, mon_st, mon_linked, mon_addr, clock>>
    /\ Observe

\* last = self.last_seen.get(sensor_id, now); if now - last < 15.0: continue
MonNext ==
    /\ mon_pc = "next"
    /\ \E sensor_id \in mon_ids :
         LET last == Get(last_seen, sensor_id, mon_now)
         IN  /\ mon_ids' = mon_ids \ {sensor_id}
             /\ IF mon_now - last < SilenceLimit
                THEN UNCHANGED <<mon_pc, mon_sid>>
                ELSE /\ mon_pc' = "get"
                     /\ mon_sid' = sensor_id
    /\ Quiet
    /\ UNCHANGED <<server, mon_now, mon_st, mon_linked, mon_addr, clock>>
    /\ Observe

\* the for loop is over: time.sleep(0.2)
MonSleep ==
    /\ mon_pc = "next"
    /\ mon_ids = {}
    /\ mon_pc' = "sleep"
    /\ mon_now' = 0
    /\ Quiet
    /\ UNCHANGED <<server, mon_ids, mon_sid, mon_st, mon_linked, mon_addr, clock>>
    /\ Observe

\* st = self._probe.get(sensor_id); if st is None: st = {...}; self._probe[sensor_id] = st
MonGet ==
    /\ mon_pc = "get"
    /\ mon_pc' = "timeout"
    /\ mon_st' = Get(probe, mon_sid, NoSt)
    /\ probe' = Put(probe, mon_sid, Get(probe, mon_sid, NoSt))
    /\ mon_linked' = TRUE
    /\ Quiet
    /\ UNCHANGED <<tokens, sensor_addr, id_type, active_by_type, last_seen,
                   last_resend_req, mon_now, mon_ids, mon_sid, mon_addr, clock>>
    /\ Observe

\* if st["waiting"] and now >= st["deadline"]
TimedOut(st, now) == st.waiting /\ now >= st.deadline

\* the timeout branch: DISCONNECTED, the next probe in 5 s
MonTimeout ==
    /\ mon_pc = "timeout"
    /\ mon_pc' = "due"
    /\ IF TimedOut(mon_st, mon_now)
       THEN /\ notes' = {<<"DISCONNECTED", mon_sid>>}
            /\ SetSt([mon_st EXCEPT !.waiting = FALSE,
                                    !.next = mon_now + ProbeBackoff])
       ELSE /\ notes' = {}
            /\ UNCHANGED <<mon_st, probe>>
    /\ rx' = NoRx
    /\ tx' = {}
    /\ UNCHANGED <<tokens, sensor_addr, id_type, active_by_type, last_seen,
                   last_resend_req, mon_now, mon_ids, mon_sid, mon_linked,
                   mon_addr, clock, tester, listen_pc, menu>>
    /\ Observe

\* the slip: one probe too many
ProbeDue_late(st, now) ==
    /\ ~st.waiting
    /\ st.attempts <= MaxAttempts
    /\ now >= st.next

\* if not st["waiting"] and st["attempts"] < 10 and now >= st["next"]
ProbeDue(st, now) ==
    /\ ~st.waiting
    /\ st.attempts < MaxAttempts
    /\ now >= st.next

\* the probe branch up to: addr = self.sensor_addr.get(sensor_id); if addr
MonDue ==
    /\ mon_pc = "due"
    /\ IF /\ ProbeDue(mon_st, mon_now)
          /\ Get(sensor_addr, mon_sid, NoAddr) # NoAddr
       THEN /\ mon_pc' = "send"
            /\ mon_addr' = sensor_addr[mon_sid]
            /\ UNCHANGED <<mon_sid, mon_st, mon_linked>>
       ELSE MonContinue
    /\ Quiet
    /\ UNCHANGED <<server, mon_now, mon_ids, clock>>
    /\ Observe

\* ping = {...}; self.safe_send(addr, ping).  The datagram reaches the socket
\* of the simulator when a simulator is there to read it.
MonSendTo(simulator) ==
    /\ mon_pc = "send"
    /\ mon_pc' = "inc"
    /\ tx' = {<<mon_addr, [type |-> "activity_check",
                           sensor_type |-> Get(id_type, mon_sid, "UNKNOWN"),
                           sensor_id |-> mon_sid,
                           token |-> Get(tokens, mon_sid, NoneInt),
                           timestamp |-> mon_now,
                           low_battery |-> FALSE,
                           attempt |-> mon_st.attempts + 1]>>}
    /\ rx' = NoRx
    /\ notes' = {}
    /\ t_inbox' = IF simulator
                  THEN t_inbox \cup {d[2] : d \in tx'}
                  ELSE t_inbox
    /\ UNCHANGED <<server, mon_now, mon_ids, mon_sid, mon_st, mon_linked,
                   mon_addr, clock, t_tokens, resend_on_request, pending_last,
                   last_sent_ok, paused_sensors, activity_ping_count, auto_ids,
                   listen_pc, menu>>
    /\ Observe

MonSend == MonSendTo(FALSE)

\* st["attempts"] += 1; st["waiting"] = True; st["deadline"] = now + 1.0
MonInc ==
    /\ mon_pc = "inc"
    /\ LET st == [mon_st EXCEPT !.attempts = @ + 1,
                                !.waiting = TRUE,
                                !.deadline = mon_now + ProbeWait]
       IN  /\ probe' = IF mon_linked THEN Put(probe, mon_sid, st) ELSE probe
    /\ MonContinue
    /\ Quiet
    /\ UNCHANGED <<tokens, sensor_addr, id_type, active_by_type, last_seen,
                   last_resend_req, mon_now, mon_ids, clock>>
    /\ Observe

---------------------------------------------------------------------------
(* The clock.  One pass of the monitor over the sensors takes far less     *)
(* than a second, so a second passes while the monitor sleeps.             *)

\* a second passes: time.time() is one more
Advance(horizon) ==
    /\ clock < horizon
    /\ mon_pc = "sleep"
    /\ clock' = clock + 1
    /\ Quiet
    /\ UNCHANGED <<server, monitor>>
    /\ Observe

\* A second passes, seen from the present: instead of time.time() moving
\* forward, every stored time moves one second back.  The code compares a
\* stored time t only with now (now - t < 15.0, now >= t, now - t >= 1.0), so
\* all times at or before the oldest time a comparison tells apart are alike
\* and t stops there.  This keeps the states of an arbitrarily long run finite.
Back(t, oldest) == IF t - 1 < oldest THEN oldest ELSE t - 1

\* seen is how far back the reader of last_seen tells times apart
Elapse(seen) ==
    /\ mon_pc = "sleep"
    /\ last_seen' = [i \in DOMAIN last_seen |->
                        Back(last_seen[i], clock - seen)]
    /\ last_resend_req' = [i \in DOMAIN last_resend_req |->
                              Back(last_resend_req[i], clock - ResendGap)]
    /\ probe' = [i \in DOMAIN probe |->
                    [probe[i] EXCEPT !.deadline = Back(@, clock),
                                     !.next = Back(@, clock)]]
    /\ g_resend' = [i \in DOMAIN g_resend |->
                       Back(g_resend[i], clock - ResendGap)]
    /\ g_check_at' = [i \in DOMAIN g_check_at |->
                         Back(g_check_at[i], clock - ProbeGap)]
    /\ g_disc_at' = [i \in DOMAIN g_disc_at |->
                        Back(g_disc_at[i], clock - ProbeBackoff)]
    /\ auto_t0' = Back(auto_t0, clock - AutoPeriod)
    /\ Quiet
    /\ UNCHANGED <<tokens, sensor_addr, id_type, active_by_type, monitor,
                   clock, g_probed, g_attempt, g_await, g_history, g_renewed,
                   g_records, g_log, checksum>>

---------------------------------------------------------------------------
(* Server.listen_loop: one datagram that decoded to a JSON object          *)

\* mtype = message.get("type") and the handler it selects
Dispatch(message, addr) ==
    LET mtype == Get(message, "type", None)
    IN  /\ IF mtype = "register" THEN handle_register(message, addr)
           ELSE IF mtype = "data" THEN handle_data(message, addr)
           ELSE IF mtype = "activity_ack" THEN handle_activity_ack(message, addr)
           ELSE /\ Handled("unknown", message, addr)
                /\ tx' = {}
                /\ notes' = {}
                /\ Untouched
        /\ Observe

\* one turn of the loop: the datagram is received and handled
listen_loop(message, addr) ==
    /\ listen_pc = "recv"
    /\ UNCHANGED <<listen_pc, menu>>
    /\ Dispatch(message, addr)

\* A datagram that does not decode to a JSON object.  json.loads raises
\* JSONDecodeError on bytes that are no JSON text, which the loop catches:
\* it prints a line and goes on.  JSON text that is an array, a number, a
\* string or null decodes, and message.get("type") raises AttributeError,
\* which nothing catches: the thread ends.
NotJson == "invalid_json"
NotObject == "not_object"

listen_loop_other(what, addr) ==
    /\ listen_pc = "recv"
    /\ listen_pc' = IF what = NotObject THEN "dead" ELSE "recv"
    /\ UNCHANGED menu
    /\ Handled(what, Empty, addr)
    /\ tx' = {}
    /\ notes' = {}
    /\ Untouched
    /\ Observe

---------------------------------------------------------------------------
(* Datagrams of the environment                                            *)

\* the crc32 values a data message may carry next to a payload
GoodCrc(data_obj) == JInt(CrcTable[data_obj])
BadCrc(data_obj) == JInt(Xor(CrcTable[data_obj], FlipMask))

\* the category a sensor of the simulator has: Tester.sensors
SensorType(i) == IF i = "T001" THEN "ThermoNode" ELSE "WindSense"

RegisterMsgs(ids, cats) ==
    {[type |-> "register", sensor_id |-> i, sensor_type |-> c] :
        i \in ids, c \in cats}
    \cup {[type |-> "register", sensor_id |-> "", sensor_type |-> "ThermoNode"],
          [type |-> "register", sensor_type |-> "ThermoNode"]}

\* well-formed data messages: any category, right or wrong crc32
FullDataMsgs(ids, cats) ==
    {[type |-> "data", sensor_id |-> i, sensor_type |-> c, token |-> t,
      data |-> Payload1, crc32 |-> x] :
        i \in ids, c \in cats, t \in Tokens,
        x \in {GoodCrc(Payload1), BadCrc(Payload1)}}

\* data messages with a field missing or of another type
PartDataMsgs(ids) ==
    {[type |-> "data", sensor_id |-> i, sensor_type |-> SensorType(i),
      token |-> t, data |-> Payload1, crc32 |-> JStr("a3a6bf43")] :
        i \in ids, t \in Tokens}
    \cup {[type |-> "data", sensor_id |-> i, sensor_type |-> SensorType(i),
           token |-> t, data |-> PayloadOne, crc32 |-> JTrue] :
             i \in ids, t \in Tokens}
    \cup {[type |-> "data", sensor_id |-> i, sensor_type |-> SensorType(i),
           token |-> t, data |-> Payload1] : i \in ids, t \in Tokens}
    \cup {[type |-> "data", sensor_id |-> i, sensor_type |-> SensorType(i),
           token |-> t, crc32 |-> GoodCrc(<<>>)] : i \in ids, t \in Tokens}
    \cup {[type |-> "data", sensor_id |-> i, sensor_type |-> SensorType(i),
           data |-> Payload1, crc32 |-> GoodCrc(Payload1)] : i \in ids}
    \cup {[type |-> "data", sensor_type |-> "ThermoNode", token |-> TokenMin,
           data |-> Payload1, crc32 |-> GoodCrc(Payload1)]}

DataMsgs(ids, cats) == FullDataMsgs(ids, cats) \cup PartDataMsgs(ids)

AckMsgs(ids) ==
    {[type |-> "activity_ack", sensor_id |-> i, token |-> t] :
        i \in ids, t \in Tokens}
    \cup {[type |-> "activity_ack", token |-> TokenMin]}


---------------------------------------------------------------------------
(* The receive loop alone: two sensors, two categories, a run of any length *)

\* each sensor sends from a socket of its own
AddrOf(m) ==
    IF Get(m, "sensor_id", None) = "W001"
    THEN <<"127.0.0.1", 50002>>
    ELSE <<"127.0.0.1", 50001>>

RecvRegister ==
    /\ \E m \in RegisterMsgs(Ids, Categories) : listen_loop(m, AddrOf(m))
    /\ UNCHANGED tester

RecvData ==
    /\ \E m \in DataMsgs(Ids, Categories) : listen_loop(m, AddrOf(m))
    /\ UNCHANGED tester

RecvAck ==
    \* acknowledgements with and without a token
    /\ \E m \in AckMsgs(Ids)
                 \cup {[type |-> "activity_ack", sensor_id |-> i] : i \in Ids} :
         listen_loop(m, AddrOf(m))
    /\ UNCHANGED tester

RecvOther ==
    /\ \E m \in {[type |-> "activity_check", sensor_id |-> "T001"],
                  [sensor_id |-> "T001"]} :
         listen_loop(m, AddrOf(m))
    /\ UNCHANGED tester

RecvBytes ==
    /\ \E what \in {NotJson, NotObject} :
         listen_loop_other(what, <<"127.0.0.1", 50001>>)
    /\ UNCHANGED tester

\* without the monitor nothing reads last_seen: a second back is as far as
\* any time is told apart
Pass == Elapse(ResendGap)

Next ==
    \/ RecvRegister
    \/ RecvData
    \/ RecvAck
    \/ RecvOther
    \/ RecvBytes
    \/ Pass

Spec == Init /\ [][Next]_vars

---------------------------------------------------------------------------
(* The receive loop and the monitor: one category, a run of any length.    *)
(* T001 sends every kind of message; W001 only asks to register.           *)

MonIds == {"T001"}
MonCategories == {"ThermoNode"}

MonRecvRegister ==
    /\ \E m \in RegisterMsgs(Ids, MonCategories) : listen_loop(m, AddrOf(m))
    /\ UNCHANGED tester

MonRecvData ==
    /\ \E m \in DataMsgs(MonIds, MonCategories) : listen_loop(m, AddrOf(m))
    /\ UNCHANGED tester

MonRecvAck ==
    /\ \E m \in AckMsgs(MonIds) : listen_loop(m, AddrOf(m))
    /\ UNCHANGED tester

MonPass == Elapse(SilenceLimit)

NextMon ==
    \/ MonRecvRegister
    \/ MonRecvData
    \/ MonRecvAck
    \/ MonPass
    \/ MonScan
    \/ MonNext
    \/ MonSleep
    \/ MonGet
    \/ MonTimeout
    \/ MonDue
    \/ MonSend
    \/ MonInc

SpecMon == Init /\ [][NextMon]_vars

---------------------------------------------------------------------------
(* The same with the history of the probes kept: one sensor that           *)
(* registers, sends data messages and answers probes, or does not.         *)

TimedRecvRegister ==
    /\ \E m \in {[type |-> "register", sensor_id |-> i, sensor_type |-> c] :
                    i \in MonIds, c \in MonCategories} :
         listen_loop(m, AddrOf(m))
    /\ UNCHANGED tester

TimedRecvData ==
    /\ \E m \in FullDataMsgs(MonIds, MonCategories) : listen_loop(m, AddrOf(m))
    /\ UNCHANGED tester

TimedRecvAck ==
    /\ \E m \in {[type |-> "activity_ack", sensor_id |-> i, token |-> t] :
                    i \in MonIds, t \in Tokens} :
         listen_loop(m, AddrOf(m))
    /\ UNCHANGED tester

NextTimed ==
    \/ TimedRecvRegister
    \/ TimedRecvData
    \/ TimedRecvAck
    \/ MonPass
    \/ MonScan
    \/ MonNext
    \/ MonSleep
    \/ MonGet
    \/ MonTimeout
    \/ MonDue
    \/ MonSend
    \/ MonInc

SpecTimed == InitTimed /\ [][NextTimed]_vars

---------------------------------------------------------------------------
(* The monitor and a sensor that registers now from one socket, now from   *)
(* another, with the history of its records kept.                          *)

MovedRecvRegister ==
    /\ \E m \in {[type |-> "register", sensor_id |-> i, sensor_type |-> c] :
                    i \in MonIds, c \in MonCategories} :
         \E addr \in {<<"127.0.0.1", 50001>>, <<"127.0.0.1", 50003>>} :
             listen_loop(m, addr)
    /\ UNCHANGED tester

NextMoved ==
    \/ MovedRecvRegister
    \/ MonPass
    \/ MonScan
    \/ MonNext
    \/ MonSleep
    \/ MonGet
    \/ MonTimeout
    \/ MonDue
    \/ MonSend
    \/ MonInc

SpecMoved == InitMoved /\ [][NextMoved]_vars

---------------------------------------------------------------------------
(* Shutdown: choice 3 of Server.menu while both threads run.  Here the     *)
(* receive loop goes step by step: the test of its while, recvfrom, the    *)
(* handler.  Choice 3 takes well under a second, so the seconds pass       *)
(* before it.                                                              *)

\* a step of the main thread or of the receive loop that handles nothing
Idle ==
    /\ rx' = NoRx
    /\ tx' = {}
    /\ notes' = {}
    /\ UNCHANGED <<server, monitor, clock, tester>>
    /\ Observe

\* self.listening = False
MenuExit ==
    /\ menu_pc = "menu"
    /\ menu_pc' = "stop"
    /\ listening' = FALSE
    /\ UNCHANGED <<mon_running, listen_msg, listen_pc>>
    /\ Idle

\* stop_activity_monitor: self._mon_running = False
MenuStop ==
    /\ menu_pc = "stop"
    /\ menu_pc' = "join"
    /\ mon_running' = FALSE
    /\ UNCHANGED <<listening, listen_msg, listen_pc>>
    /\ Idle

\* self._mon_thread.join(timeout=1.0), then self.sock.close() and break:
\* menu returns.  The monitor, which sleeps 0.2 s, is through within the
\* timeout.
MenuReturn ==
    /\ menu_pc = "join"
    /\ mon_pc = "done"
    /\ menu_pc' = "returned"
    /\ UNCHANGED <<listening, mon_running, listen_msg, listen_pc>>
    /\ Idle

\* while self._mon_running and self.listening: the monitor's loop is over
MonStop ==
    /\ mon_pc = "sleep"
    /\ ~(mon_running /\ listening)
    /\ mon_pc' = "done"
    /\ Quiet
    /\ UNCHANGED <<server, mon_now, mon_ids, mon_sid, mon_st, mon_linked,
                   mon_addr, clock>>
    /\ Observe

\* while self.listening
ListenWhile ==
    /\ listen_pc = "recv"
    /\ listen_pc' = IF listening THEN "wait" ELSE "done"
    /\ UNCHANGED menu
    /\ Idle

\* data, addr = self.sock.recvfrom(65535) returns a datagram
ListenGet ==
    /\ listen_pc = "wait"
    /\ menu_pc # "returned"
    /\ listen_pc' = "got"
    /\ \E m \in RegisterMsgs(MonIds, MonCategories) :
         listen_msg' = [op |-> "datagram", msg |-> m, addr |-> AddrOf(m)]
    /\ UNCHANGED <<listening, mon_running, menu_pc>>
    /\ Idle

\* except socket.timeout: continue / except OSError: break (the socket
\* is closed)
ListenNone ==
    /\ listen_pc = "wait"
    /\ listen_pc' = IF menu_pc = "returned" THEN "done" ELSE "recv"
    /\ UNCHANGED menu
    /\ Idle

\* json.loads and the handler
ListenHandle ==
    /\ listen_pc = "got"
    /\ listen_pc' = "recv"
    /\ listen_msg' = NoRx
    /\ UNCHANGED <<listening, mon_running, menu_pc, tester>>
    /\ Dispatch(listen_msg.msg, listen_msg.addr)

NextStop ==
    \/ MenuExit
    \/ MenuStop
    \/ MenuReturn
    \/ ListenWhile
    \/ ListenGet
    \/ ListenNone
    \/ ListenHandle
    \/ menu_pc = "menu" /\ Elapse(SilenceLimit)
    \/ MonScan
    \/ MonNext
    \/ MonSleep
    \/ MonGet
    \/ MonTimeout
    \/ MonDue
    \/ MonSend
    \/ MonInc
    \/ MonStop

SpecStop == Init /\ [][NextStop]_vars

---------------------------------------------------------------------------
(* The simulator of tester.py in front of the receive loop.  A datagram    *)
(* the simulator sends is handled by the server in the same step; the      *)
(* server's replies wait in the simulator's socket until it reads them.    *)

TesterAddr == <<"127.0.0.1", 50001>>
TesterIds == {"T001"}

\* the datagrams among those sent that went to the simulator's socket
Replies(sent) == {d[2] : d \in {e \in sent : e[1] = TesterAddr}}

\* a step of the simulator that sends nothing to the server
ServerIdle ==
    /\ rx' = NoRx
    /\ tx' = {}
    /\ notes' = {}
    /\ UNCHANGED <<server, monitor, clock, listen_pc, menu>>
    /\ Observe

\* Tester._build_data_msg
build_data_msg(s_type, s_id, token, data) ==
    [type |-> "data", sensor_type |-> s_type, sensor_id |-> s_id,
     token |-> token, timestamp |-> clock, low_battery |-> FALSE,
     data |-> data, crc32 |-> JInt(CrcTable[data])]

\* bad = dict(good); bad["crc32"] = (good["crc32"] ^ 0x00FFFF00) & 0xFFFFFFFF
Corrupted(good) == [good EXCEPT !.crc32 = JInt(Xor(@.val, FlipMask))]

\* Tester._register_once for a sensor register_all does not skip.  With the
\* receiver thread stopped, the reply it reads is any datagram in the socket.
register_once(sensor_type, sensor_id) ==
    /\ sensor_id \notin DOMAIN t_tokens
    /\ listen_loop([type |-> "register", sensor_type |-> sensor_type,
                    sensor_id |-> sensor_id, timestamp |-> clock], TesterAddr)
    /\ \E resp \in t_inbox \cup Replies(tx') :
         /\ t_inbox' = (t_inbox \cup Replies(tx')) \ {resp}
         /\ t_tokens' = IF resp.type = "register_ack"
                        THEN Put(t_tokens, sensor_id, resp.token)
                        ELSE t_tokens
    /\ UNCHANGED <<resend_on_request, pending_last, last_sent_ok,
                   paused_sensors, activity_ping_count, auto_ids>>

\* Tester.auto_loop for one sensor, once start_auto found every sensor registered
auto_loop(s_type, s_id, data) ==
    /\ TesterIds \subseteq DOMAIN t_tokens
    /\ s_id \notin paused_sensors
    /\ LET msg == build_data_msg(s_type, s_id, t_tokens[s_id], data)
       IN  /\ listen_loop(msg, TesterAddr)
           /\ pending_last' = Put(pending_last, s_id, msg)
    /\ t_inbox' = t_inbox \cup Replies(tx')
    /\ UNCHANGED <<t_tokens, resend_on_request, last_sent_ok,
                   paused_sensors, activity_ping_count>>

\* Tester.inject_bad_frame
inject_bad_frame(s_type, s_id, data) ==
    /\ s_id \in DOMAIN t_tokens
    /\ LET good == build_data_msg(s_type, s_id, t_tokens[s_id], data)
       IN  /\ resend_on_request' = Put(resend_on_request, s_id, good)
           /\ listen_loop(Corrupted(good), TesterAddr)
    /\ t_inbox' = t_inbox \cup Replies(tx')
    /\ UNCHANGED <<t_tokens, pending_last, last_sent_ok,
                   paused_sensors, activity_ping_count, auto_ids>>

\* resend = self.resend_on_request.pop(sid, None)
\* if resend is None: resend = self.last_sent_ok.get(sid) or self.pending_last.get(sid)
ResendOf(sid) ==
    IF sid \in DOMAIN resend_on_request THEN resend_on_request[sid]
    ELSE IF sid \in DOMAIN last_sent_ok THEN last_sent_ok[sid]
    ELSE pending_last[sid]

\* if resend
HasResend(sid) ==
    sid \in (DOMAIN resend_on_request) \cup (DOMAIN last_sent_ok)
               \cup (DOMAIN pending_last)

\* the activity_ack the simulator answers a probe with
activity_ack(msg) ==
    [type |-> "activity_ack", sensor_type |-> msg.sensor_type,
     sensor_id |-> msg.sensor_id, token |-> t_tokens[msg.sensor_id],
     timestamp |-> clock, low_battery |-> FALSE]

\* Tester._rx_loop on one datagram from the server; self.sending is True
rx_loop(msg) ==
    /\ msg \in t_inbox
    /\ IF msg.type = "request_resend" /\ HasResend(msg.sensor_id)
       THEN /\ listen_loop(ResendOf(msg.sensor_id), TesterAddr)
            /\ resend_on_request' = Pop(resend_on_request, msg.sensor_id)
            /\ pending_last' = Put(pending_last, msg.sensor_id,
                                   ResendOf(msg.sensor_id))
            /\ UNCHANGED <<last_sent_ok, paused_sensors, activity_ping_count>>
       ELSE IF msg.type = "request_resend"
       THEN /\ ServerIdle
            /\ resend_on_request' = Pop(resend_on_request, msg.sensor_id)
            /\ UNCHANGED <<pending_last, last_sent_ok, paused_sensors,
                           activity_ping_count>>
       ELSE IF msg.type = "data_ack" /\ msg.sensor_id \in DOMAIN pending_last
       THEN /\ ServerIdle
            /\ last_sent_ok' = Put(last_sent_ok, msg.sensor_id,
                                   pending_last[msg.sensor_id])
            /\ pending_last' = Pop(pending_last, msg.sensor_id)
            /\ UNCHANGED <<resend_on_request, paused_sensors,
                           activity_ping_count>>
       ELSE IF /\ msg.type = "activity_check"
               /\ msg.sensor_id \in DOMAIN t_tokens
               /\ msg.sensor_id \in paused_sensors
       THEN LET sid == msg.sensor_id
                c == Get(activity_ping_count, sid, 0) + 1
            IN  /\ IF c >= AckOnPing
                   THEN /\ listen_loop(activity_ack(msg), TesterAddr)
                        /\ paused_sensors' = paused_sensors \ {sid}
                        /\ activity_ping_count' = Pop(activity_ping_count, sid)
                   ELSE /\ ServerIdle
                        /\ activity_ping_count' = Put(activity_ping_count, sid, c)
                        /\ UNCHANGED paused_sensors
                /\ UNCHANGED <<resend_on_request, pending_last, last_sent_ok>>
       ELSE /\ ServerIdle
            /\ UNCHANGED <<resend_on_request, pending_last, last_sent_ok,
                           paused_sensors, activity_ping_count>>
    /\ t_inbox' = (t_inbox \ {msg}) \cup Replies(tx')
    /\ UNCHANGED <<t_tokens, auto_ids>>

TesterRegister == \E i \in TesterIds : register_once(SensorType(i), i)

TesterAuto ==
    /\ \E i \in TesterIds, data \in {Payload1, Payload2} :
         auto_loop(SensorType(i), i, data)
    /\ UNCHANGED auto_ids

TesterInject ==
    \E i \in TesterIds, data \in {Payload1, Payload2} :
        inject_bad_frame(SensorType(i), i, data)

TesterReceive == \E msg \in t_inbox : rx_loop(msg)

NextResend ==
    \/ TesterRegister
    \/ TesterAuto
    \/ TesterInject
    \/ TesterReceive
    \* the simulator stamps its messages, so here time.time() moves forward
    \/ Advance(Epoch + MaxTime)

SpecResend == Init /\ [][NextResend]_vars

---------------------------------------------------------------------------
(* Properties.  A step's rx', tx' and notes' are what the step received,   *)
(* sent and printed; the unprimed state is the state the handler found.    *)

\* the step handled a register request with a non-empty sensor_id
RegisterStep == rx'.op = "register" /\ ~NotStr(Get(rx'.msg, "sensor_id", None))

\* the category a register request names
RegisterType(m) == Get(m, "sensor_type", "UNKNOWN")

\* every datagram of the step went to the sender of the message it handled
ToSender == \A d \in tx' : d[1] = rx'.addr

\* C1: a register request for a category whose active identity is another
\* sensor is answered, to the requester, with one register_denied whose reason
\* is type_busy and whose active_sensor_id is the identity active for the
\* category.
C1_DeniedReportsActive ==
    [][RegisterStep =>
         LET c == RegisterType(rx'.msg)
         IN  (c \in DOMAIN active_by_type
                 /\ active_by_type[c] # rx'.msg.sensor_id)
             => /\ Cardinality(tx') = 1
                /\ ToSender
                /\ \A d \in tx' :
                     /\ d[2].type = "register_denied"
                     /\ d[2].reason = "type_busy"
                     /\ d[2].active_sensor_id = active_by_type[c]]_vars

\* W001 asked for ThermoNode while T001 held it and was told so
C1_Witness ==
    /\ rx.op = "register"
    /\ Get(rx.msg, "sensor_id", None) = "W001"
    /\ \E d \in tx : /\ d[2].type = "register_denied"
                     /\ d[2].active_sensor_id = "T001"
                     /\ d[2].sensor_type = "ThermoNode"

\* C2: a step that answers register_denied leaves tokens, addresses, stored
\* categories, the active identities, the last-seen times, the probe states
\* and the resend times as they were, for every identity.
C2_DeniedChangesNothing ==
    [][Sent(tx', "register_denied") # {} => UNCHANGED server]_vars

\* a request was denied while the active sensor was being probed
C2_Witness ==
    /\ Sent(tx, "register_denied") # {}
    /\ "T001" \in DOMAIN probe
    /\ probe["T001"].attempts > 0
    /\ "T001" \in DOMAIN last_seen

\* C3: the identity active for a category has a record, and the category
\* stored in that record is this category.
C3_ActiveHasCategory ==
    \A c \in DOMAIN active_by_type :
        /\ active_by_type[c] \in DOMAIN tokens
        /\ active_by_type[c] \in DOMAIN id_type
        /\ id_type[active_by_type[c]] = c

\* C4: a register request with a non-empty identity gets register_ack exactly
\* when its category has no active identity or the requester is the active
\* one; the server then holds a token for the identity, the identity is the
\* active one of the category, its last-seen time is now, and the only reply
\* is a register_ack to the requester that carries the stored token.  (That a
\* category has no more than one active identity is the shape of the
\* active_by_type mapping.)
C4_AcceptRule ==
    [][RegisterStep =>
         LET sid == rx'.msg.sensor_id
             c == RegisterType(rx'.msg)
             free == c \notin DOMAIN active_by_type \/ active_by_type[c] = sid
         IN  /\ (Sent(tx', "register_ack") # {}) <=> free
             /\ free =>
                  /\ sid \in DOMAIN tokens'
                  /\ tokens'[sid] \in Tokens
                  /\ c \in DOMAIN active_by_type'
                  /\ active_by_type'[c] = sid
                  /\ sid \in DOMAIN last_seen'
                  /\ last_seen'[sid] = clock
                  /\ Cardinality(tx') = 1
                  /\ ToSender
                  /\ \A d \in tx' : /\ d[2].type = "register_ack"
                                    /\ d[2].sensor_id = sid
                                    /\ d[2].token = tokens'[sid]]_vars

\* the active identity of a category registered again, T001 holding
\* ThermoNode next to W001 holding WindSense
C4_Witness ==
    /\ rx.op = "register"
    /\ Sent(tx, "register_ack") # {}
    /\ DOMAIN active_by_type = Categories
    /\ active_by_type["ThermoNode"] = "T001"
    /\ active_by_type["WindSense"] = "W001"
    /\ last_seen["W001"] < last_seen["T001"]

\* C5: a data message without a token, or with a token that is not the one
\* stored for its sensor_id, is answered with invalid_token and nothing else
\* happens: the server's maps, the probe state among them, are unchanged and
\* nothing is printed.
C5_InvalidTokenChangesNothing ==
    [][(rx'.op = "data" /\ ~RightToken(rx'.msg)) =>
         /\ Cardinality(tx') = 1
         /\ ToSender
         /\ \A d \in tx' : d[2].type = "invalid_token"
         /\ UNCHANGED server
         /\ notes' = {}]_vars

\* a probed sensor's data message with a right checksum and a wrong token
\* was refused
C5_Witness ==
    /\ rx.op = "data"
    /\ Get(rx.msg, "sensor_id", None) = "T001"
    /\ Get(rx.msg, "crc32", JNone) = GoodCrc(Payload1)
    /\ Get(rx.msg, "data", <<>>) = Payload1
    /\ Sent(tx, "invalid_token") # {}
    /\ "T001" \in DOMAIN tokens
    /\ "T001" \in DOMAIN probe
    /\ probe["T001"].attempts > 0

\* C6: a data message with the right token is answered with data_ack exactly
\* when its crc32 field is there, is an integer and is the checksum of its
\* data field.
C6_AckIffIntegerChecksum ==
    [][(rx'.op = "data" /\ RightToken(rx'.msg)) =>
         ((Sent(tx', "data_ack") # {})
            <=> /\ "crc32" \in DOMAIN rx'.msg
                /\ rx'.msg.crc32.kind = "int"
                /\ rx'.msg.crc32.val = CrcTable[Get(rx'.msg, "data", <<>>)])]_vars

\* the step in which the simulator sent the corrupted copy of the message it
\* keeps for the resend
InjectStep(sid) ==
    /\ rx'.op = "data"
    /\ sid \in DOMAIN resend_on_request'
    /\ rx'.msg = Corrupted(resend_on_request'[sid])

\* the step in which the simulator sent the message it had kept
ResendStep(sid) ==
    /\ rx'.op = "data"
    /\ sid \in DOMAIN resend_on_request
    /\ sid \notin DOMAIN resend_on_request'

\* a request_resend went out for the sensor less than a second ago
Recent(sid) == sid \in DOMAIN g_resend /\ clock - g_resend[sid] < ResendGap

\* the request_resend datagrams of the step for one sensor
Requests(sid) == {m \in Sent(tx', "request_resend") : m.sensor_id = sid}

\* C7 as stated: a registered sensor's data message with a flipped crc32
\* is answered with request_resend, and the resend of the original message
\* is answered with data_ack however soon it comes.
C7_ResendThenAccept ==
    [][\A sid \in TesterIds :
         /\ (InjectStep(sid) /\ RightToken(rx'.msg)) => Requests(sid) # {}
         /\ (ResendStep(sid) /\ RightToken(rx'.msg)) =>
              /\ rx'.msg = resend_on_request[sid]
              /\ Sent(tx', "data_ack") # {}]_vars

\* C7: a registered sensor's data message with a flipped crc32 is answered
\* with request_resend unless a request_resend went out for the sensor less
\* than a second before; the resend of the original message is answered with
\* data_ack however soon it comes.
C7_ResendThenAcceptSpaced ==
    [][\A sid \in TesterIds :
         /\ (InjectStep(sid) /\ RightToken(rx'.msg) /\ ~Recent(sid))
              => Requests(sid) # {}
         /\ (ResendStep(sid) /\ RightToken(rx'.msg)) =>
              /\ rx'.msg = resend_on_request[sid]
              /\ ToSender
              /\ \E m \in Sent(tx', "data_ack") : m.sensor_id = sid]_vars

\* the kept message was resent and acknowledged in the second in which the
\* request_resend for it went out
C7_Witness ==
    /\ rx.op = "data"
    /\ \E m \in Sent(tx, "data_ack") : m.sensor_id = "T001"
    /\ "T001" \in DOMAIN g_resend
    /\ g_resend["T001"] = clock
    /\ "T001" \notin DOMAIN resend_on_request
    /\ "T001" \in DOMAIN pending_last
    /\ pending_last["T001"] = rx.msg
    /\ rx.msg.timestamp = clock

\* a data message the verification turns down: no crc32, a crc32 that is no
\* number, or one that is not the checksum of the data
Corrupt(m) ==
    LET c == Get(m, "crc32", JNone)
    IN  c.kind \notin {"int", "bool"} \/ c.val # CrcTable[Get(m, "data", <<>>)]

\* C8: a request_resend for a sensor goes out only if none went out for it
\* in the second before; a corrupted frame with the right token gets no
\* reply at all if one did, and a request_resend if none did, whatever went
\* out for other sensors.
C8_ResendSpacing ==
    [][\A sid \in Ids :
         /\ Requests(sid) # {} => ~Recent(sid)
         /\ (/\ rx'.op = "data"
             /\ RightToken(rx'.msg)
             /\ rx'.msg.sensor_id = sid
             /\ Corrupt(rx'.msg))
            => IF Recent(sid) THEN tx' = {} ELSE Requests(sid) # {}]_vars

\* a corrupted frame of T001 got no reply in the second of T001's last
\* request_resend, after W001 had got one too
C8_Witness ==
    /\ rx.op = "data"
    /\ RightToken(rx.msg)
    /\ rx.msg.sensor_id = "T001"
    /\ Corrupt(rx.msg)
    /\ tx = {}
    /\ DOMAIN g_resend = Ids
    /\ g_resend["T001"] = clock
    /\ g_resend["W001"] = clock

\* C9: a probe state's attempts are between 0 and 10; no activity_check goes
\* to a sensor whose attempts are 10; and attempts that are 10 stay 10 until
\* a data message or an activity_ack for the sensor removes the probe state.
C9_AttemptsBounded ==
    [][/\ \A i \in DOMAIN probe' : probe'[i].attempts \in 0..MaxAttempts
       /\ mon_st'.attempts \in 0..MaxAttempts
       /\ \A m \in Sent(tx', "activity_check") :
            ~(m.sensor_id \in DOMAIN probe
                /\ probe[m.sensor_id].attempts = MaxAttempts)
       /\ \A i \in DOMAIN probe :
            (/\ probe[i].attempts = MaxAttempts
             /\ (i \notin DOMAIN probe' \/ probe'[i].attempts # MaxAttempts))
            => /\ rx'.op \in {"data", "activity_ack"}
               /\ Get(rx'.msg, "sensor_id", None) = i
               /\ i \notin DOMAIN probe']_vars

\* the tenth probe went unanswered
C9_Witness ==
    /\ "T001" \in DOMAIN probe
    /\ probe["T001"].attempts = MaxAttempts
    /\ ~probe["T001"].waiting

\* C10: RECONNECTED is printed for a sensor only by a step that removes its
\* probe state, and only if an activity_check went to the sensor since its
\* last accepted data message or acknowledgement; so a message for a sensor
\* without probe state prints none, and a second one needs a new probe.
C10_ReconnectedOncePerEpisode ==
    [][\A n \in notes' :
         n[1] = "RECONNECTED" =>
           /\ rx'.op \in {"data", "activity_ack"}
           /\ n[2] \in g_probed
           /\ n[2] \in DOMAIN probe
           /\ n[2] \notin DOMAIN probe'
           /\ n[2] \notin g_probed']_vars

\* a probed sensor came back
C10_Witness == <<"RECONNECTED", "T001">> \in notes

\* C11: DISCONNECTED is printed only for a probe state that no data message
\* or acknowledgement has cleared since the monitor took it in hand, so that
\* no timeout is processed for a probe after the message that cleared it.
C11_NoTimeoutAfterClear ==
    [][\A n \in notes' : n[1] = "DISCONNECTED" => mon_linked]_vars

\* C12: a data message with the right token whose checksum fails leaves the
\* probe state, the last-seen time and the address of its sensor as they
\* were and prints no RECONNECTED.
C12_CorruptDataProvesNothing ==
    [][(rx'.op = "data" /\ RightToken(rx'.msg) /\ Corrupt(rx'.msg)) =>
         /\ UNCHANGED <<probe, last_seen, sensor_addr>>
         /\ notes' = {}]_vars


---------------------------------------------------------------------------
(* Attempt numbers                                                         *)

\* C13: every activity_check carries one more than the last activity_check
\* sent to its sensor since the sensor's last data message or acknowledgement
\* with the right token, and 1 when none was sent since: the count starts at 1
\* and is back at 0 after an acknowledgement.
C13_AttemptsCountFromClear ==
    [][\A m \in Sent(tx', "activity_check") :
         m.attempt = Get(g_attempt, m.sensor_id, 0) + 1]_vars


---------------------------------------------------------------------------
(* From probing to backing off                                             *)

\* the time since the last activity_check to sid, the last DISCONNECTED for it
SinceCheck(sid) == clock - g_check_at[sid]
SinceLost(sid) == clock - g_disc_at[sid]

\* C14: DISCONNECTED is printed for a sensor at most once per activity_check
\* sent to it and no sooner than 1 s after that activity_check; an
\* activity_check is sent to a sensor no sooner than 5 s after the last
\* DISCONNECTED printed for it, so not in the pass of the monitor that printed
\* it, and no sooner than 6 s after the activity_check before.
C14_TimeoutThenBackoff ==
    [][/\ \A n \in notes' :
            n[1] = "DISCONNECTED" =>
              /\ n[2] \in g_await
              /\ SinceCheck(n[2]) >= ProbeWait
       /\ \A m \in Sent(tx', "activity_check") :
            /\ m.sensor_id \in DOMAIN g_disc_at =>
                 SinceLost(m.sensor_id) >= ProbeBackoff
            /\ m.sensor_id \in DOMAIN g_check_at =>
                 SinceCheck(m.sensor_id) >= ProbeGap]_vars


---------------------------------------------------------------------------
(* Back from the last attempt                                              *)

\* the sensor's probe state has used all attempts
Exhausted(sid) == sid \in DOMAIN probe /\ probe[sid].attempts = MaxAttempts

\* C15: no activity_check goes to a sensor whose probe state has used its 10
\* attempts; a data message from it with the right token and checksum is
\* answered with data_ack, removes the probe state, so that no attempt is
\* counted any more, and prints RECONNECTED once; and the first activity_check
\* sent to it after that carries attempt 1.
C15_RecoveryFromExhausted ==
    [][/\ \A m \in Sent(tx', "activity_check") :
            /\ ~Exhausted(m.sensor_id)
            /\ (/\ m.sensor_id \in DOMAIN g_renewed
                /\ ~g_renewed[m.sensor_id]) => m.attempt = 1
       /\ (/\ rx'.op = "data"
           /\ RightToken(rx'.msg)
           /\ ~Corrupt(rx'.msg)
           /\ Exhausted(rx'.msg.sensor_id)) =>
             /\ tx' = DataReply("data_ack", rx'.msg.sensor_id, rx'.addr)
             /\ rx'.msg.sensor_id \notin DOMAIN probe'
             /\ rx'.msg.sensor_id \notin DOMAIN g_attempt'
             /\ notes' = {<<"RECONNECTED", rx'.msg.sensor_id>>}]_vars

\* the first probe of a new episode goes to a sensor that came back after ten
\* unanswered probes
C15_Witness ==
    /\ "T001" \in DOMAIN g_renewed
    /\ g_renewed["T001"]
    /\ \E m \in Sent(tx, "activity_check") :
         m.sensor_id = "T001" /\ m.attempt = 1


---------------------------------------------------------------------------
(* Acknowledgements, unknown and malformed datagrams                       *)

\* C16: an activity_ack is never answered; one that carries the token stored
\* for its sensor_id notes the time and the sender's address for that sensor
\* and removes its probe state, and changes nothing else; every other
\* activity_ack changes nothing and adds no entry to any map.
C16_AckNeedsToken ==
    [][rx'.op = "activity_ack" =>
         /\ tx' = {}
         /\ IF RightToken(rx'.msg)
            THEN /\ last_seen' = Put(last_seen, rx'.msg.sensor_id, clock)
                 /\ sensor_addr' = Put(sensor_addr, rx'.msg.sensor_id, rx'.addr)
                 /\ rx'.msg.sensor_id \notin DOMAIN probe'
                 /\ UNCHANGED <<tokens, id_type, active_by_type,
                                last_resend_req>>
            ELSE UNCHANGED server]_vars


\* C17: a datagram that is no JSON object, or whose type is missing or none
\* of register, data and activity_ack, is dropped: nothing is sent, nothing
\* of the server's state changes, and the receive loop goes on.
C17_OthersDropped ==
    [][rx'.op \in {NotJson, NotObject, "unknown"} =>
         /\ tx' = {}
         /\ UNCHANGED <<server, listen_pc>>]_vars

\* C18: whatever datagrams have come in, the receive loop is running.
C18_LoopSurvives == listen_pc = "recv"


---------------------------------------------------------------------------
(* Registration without an identity, and of a probed identity              *)

\* C19: a register request whose sensor_id is absent or empty gets no reply
\* and changes nothing, so that no token is issued, whether its category has
\* an active sensor or not.
C19_RegisterNeedsId ==
    [][(rx'.op = "register" /\ Get(rx'.msg, "sensor_id", "") = "") =>
         /\ tx' = {}
         /\ notes' = {}
         /\ UNCHANGED <<server, mon_linked>>]_vars

\* a register request without sensor_id came in while its category was free
C19_Witness ==
    /\ rx.op = "register"
    /\ "sensor_id" \notin DOMAIN rx.msg
    /\ Get(rx.msg, "sensor_type", "UNKNOWN") \notin DOMAIN active_by_type

\* C20: an accepted registration of a sensor that has probe state leaves the
\* probe state as it was and prints no RECONNECTED; a probe state is removed
\* only by a data message or an activity_ack for its sensor.
C20_RegisterKeepsProbe ==
    [][/\ (/\ rx'.op = "register"
           /\ Sent(tx', "register_ack") # {}
           /\ rx'.msg.sensor_id \in DOMAIN probe) =>
             /\ UNCHANGED probe
             /\ notes' = {}
       /\ \A i \in (DOMAIN probe) \ (DOMAIN probe') :
            /\ rx'.op \in {"data", "activity_ack"}
            /\ rx'.msg.sensor_id = i]_vars

\* a sensor with three unanswered probes registered again
C20_Witness ==
    /\ rx.op = "register"
    /\ Sent(tx, "register_ack") # {}
    /\ rx.msg.sensor_id \in DOMAIN probe
    /\ probe[rx.msg.sensor_id].attempts = 3


---------------------------------------------------------------------------
(* Shutdown                                                                *)

\* C21: when menu returns from choice 3 the monitor and the receive loop have
\* both ended, and once it has returned no datagram is handled and nothing is
\* passed to safe_send.
C21_ShutdownWaitsForBoth ==
    [][/\ menu_pc' = "returned" =>
            /\ mon_pc' = "done"
            /\ listen_pc' \in {"done", "dead"}
       /\ menu_pc = "returned" =>
            /\ rx' = NoRx
            /\ tx' = {}]_vars


---------------------------------------------------------------------------
(* What the monitor reads while the receive loop writes                    *)

\* C22: the token, the category and the destination address of every
\* activity_check are those the maps of the server held together for its
\* sensor at some one time.
C22_ProbeFromOneRecord ==
    [][\A d \in tx' :
         d[2].type = "activity_check" =>
           <<d[2].sensor_id, d[2].token, d[1], d[2].sensor_type>>
              \in g_records]_vars


---------------------------------------------------------------------------
(* What registration keeps                                                 *)

\* C23: no step removes a sensor from tokens, sensor_addr, id_type or
\* last_seen, or changes or removes the active sensor of a category; a
\* register request of another sensor for a category that has an active
\* sensor is answered with register_denied, whatever the probe state of the
\* active sensor.
C23_NoEviction ==
    [][/\ \A c \in DOMAIN active_by_type :
            /\ c \in DOMAIN active_by_type'
            /\ active_by_type'[c] = active_by_type[c]
       /\ DOMAIN tokens \subseteq DOMAIN tokens'
       /\ DOMAIN sensor_addr \subseteq DOMAIN sensor_addr'
       /\ DOMAIN id_type \subseteq DOMAIN id_type'
       /\ DOMAIN last_seen \subseteq DOMAIN last_seen'
       /\ (/\ rx'.op = "register"
           /\ Get(rx'.msg, "sensor_id", "") # ""
           /\ RegisterType(rx'.msg) \in DOMAIN active_by_type
           /\ active_by_type[RegisterType(rx'.msg)] # rx'.msg.sensor_id) =>
             /\ Sent(tx', "register_denied") # {}
             /\ Sent(tx', "register_ack") = {}]_vars

\* another sensor was denied the category of a sensor that has left ten
\* probes unanswered
C23_Witness ==
    /\ rx.op = "register"
    /\ Sent(tx, "register_denied") # {}
    /\ Get(rx.msg, "sensor_id", "") = "W001"
    /\ "T001" \in DOMAIN probe
    /\ probe["T001"].attempts = MaxAttempts
    /\ active_by_type["ThermoNode"] = "T001"

---------------------------------------------------------------------------
(* The checksum of a payload, on both ends of the wire.  The tester sums   *)
(* the dict it has built, json.dumps writes the dict into the datagram in  *)
(* insertion order, json.loads of the server rebuilds it and the server    *)
(* sums what it has rebuilt.                                               *)

MaxFields == 3      \* the fields of a payload of the checksum exchange


\* the payloads of at most MaxFields fields, in every insertion order; a dict
\* holds a key once
CrcPayloads ==
    LET K_aqi == <<97, 105, 114, 95, 113, 117, 97, 108, 105, 116, 121, 95,
                   105, 110, 100, 101, 120>>        \* "air_quality_index"
        CrcKeys == {K_co2, K_ozone, K_aqi}
        CrcValues == {7, 300}
        DistinctKeys(items) ==
            \A i, j \in 1..Len(items) : items[i][1] = items[j][1] => i = j
    IN  UNION {{items \in [1..n -> CrcKeys \X CrcValues] :
                   DistinctKeys(items)} : n \in 0..MaxFields}

\* tester.py has its own crc32_bytes and crc32_of_json_data
t_crc32_bytes(data) == Xor(CrcLoop(data), Ones32)
t_crc32_of_json_data(data_obj) == t_crc32_bytes(DumpsSorted(data_obj))

\* json.dumps(data, separators=(",", ":")): the items as the dict holds them
DumpsPlain(data_obj) == <<123>> \o JoinItems(data_obj) \o <<125>>

\* the first position from i on that holds one of the bytes
RECURSIVE Find(_, _, _)
Find(text, i, bytes) ==
    IF i > Len(text) \/ text[i] \in bytes THEN i ELSE Find(text, i + 1, bytes)

\* int() of decimal digits
RECURSIVE Number(_)
Number(digits) ==
    IF digits = <<>> THEN 0
    ELSE Number(SubSeq(digits, 1, Len(digits) - 1)) * 10
           + (digits[Len(digits)] - 48)

\* json.loads of an object of integers: the items from position i on, in the
\* order of the text; a key read again replaces the value it had
RECURSIVE LoadItems(_, _, _)
LoadItems(text, i, sofar) ==
    IF i > Len(text) \/ text[i] = 125 THEN sofar
    ELSE LET close == Find(text, i + 1, {34})
             key == SubSeq(text, i + 1, close - 1)
             stop == Find(text, close + 2, {44, 125})
             val == Number(SubSeq(text, close + 2, stop - 1))
             at == {k \in 1..Len(sofar) : sofar[k][1] = key}
             held == IF at = {}
                     THEN Append(sofar, <<key, val>>)
                     ELSE [k \in 1..Len(sofar) |->
                             IF k \in at THEN <<key, val>> ELSE sofar[k]]
         IN  LoadItems(text, stop + 1, held)

Loads(text) == LoadItems(text, 2, <<>>)

\* Tester._build_data_msg and send: the tester sums data and sends it
TesterSum ==
    /\ crc_pc = "idle"
    /\ \E data \in CrcPayloads :
         crc_msg' = [data |-> data, text |-> DumpsPlain(data),
                     crc32 |-> t_crc32_of_json_data(data)]
    /\ crc_pc' = "sent"
    /\ UNCHANGED <<crc_got, server, monitor, clock, tester, listen_pc, menu,
                   rx, tx, notes, g_resend, g_probed, g_attempt, g_check_at,
                   g_disc_at, g_await, g_history, g_records, g_renewed, g_log,
                   auto_t0>>

\* listen_loop and handle_data: the server decodes data and sums it
ServerSum ==
    /\ crc_pc = "sent"
    /\ LET data_obj == Loads(crc_msg.text)
       IN  crc_got' = [data |-> data_obj, crc32 |-> crc32_of_json_data(data_obj)]
    /\ crc_pc' = "checked"
    /\ UNCHANGED <<crc_msg, server, monitor, clock, tester, listen_pc, menu,
                   rx, tx, notes, g_resend, g_probed, g_attempt, g_check_at,
                   g_disc_at, g_await, g_history, g_records, g_renewed, g_log,
                   auto_t0>>

\* the next data message
NextSum ==
    /\ crc_pc = "checked"
    /\ crc_pc' = "idle"
    /\ crc_msg' = NoRx
    /\ crc_got' = NoRx
    /\ UNCHANGED <<server, monitor, clock, tester, listen_pc, menu,
                   rx, tx, notes, g_resend, g_probed, g_attempt, g_check_at,
                   g_disc_at, g_await, g_history, g_records, g_renewed, g_log,
                   auto_t0>>

NextCrc ==
    \/ TesterSum
    \/ ServerSum
    \/ NextSum

SpecCrc == Init /\ [][NextCrc]_vars

\* the same fields with the same values, whatever the insertion order
SameFields(a, b) ==
    {a[i] : i \in 1..Len(a)} = {b[i] : i \in 1..Len(b)}

\* C24: the checksum depends only on the fields and their values: every
\* payload with the fields of the one the tester summed, in whatever order,
\* has the checksum the tester computed, and the server computes that value
\* for the payload it decoded
C24_ChecksumOfFields ==
    crc_pc = "checked" =>
        /\ crc_got.crc32 = crc_msg.crc32
        /\ SameFields(crc_got.data, crc_msg.data)
        /\ \A other \in CrcPayloads :
              SameFields(other, crc_msg.data) =>
                  crc32_of_json_data(other) = crc_msg.crc32

\* the server has summed a payload whose insertion order is not the sorted one
C24_Witness ==
    /\ crc_pc = "checked"
    /\ Len(crc_msg.data) = MaxFields
    /\ SortItems(crc_msg.data) # crc_msg.data
    /\ crc_got.crc32 = crc_msg.crc32

\* C25: every register_denied, register_ack, data_ack, invalid_token and
\* request_resend reply carries the sensor_id of the message it answers
C25_RepliesCarrySensorId ==
    [][\A d \in tx' :
          d[2].type \in {"register_denied", "register_ack", "data_ack",
                         "invalid_token", "request_resend"} =>
              /\ "sensor_id" \in DOMAIN d[2]
              /\ d[2].sensor_id = Get(rx'.msg, "sensor_id", None)]_vars

\* C26: an activity_check is sent to a sensor only if, when it is sent, the
\* sensor's last_seen is at least 15 s in the past
C26_ProbeOnlyAfterSilence ==
    [][\A m \in Sent(tx', "activity_check") :
          /\ m.sensor_id \in DOMAIN last_seen
          /\ clock - last_seen[m.sensor_id] >= SilenceLimit]_vars

\* the types of the datagrams of the step
SentTypes == {d[2].type : d \in tx'}

\* C28: a message the server handles draws at most one reply, which goes to
\* the address the message came from and is of a type allowed for it:
\* register_ack or register_denied for register; data_ack, invalid_token or
\* request_resend for data; none for activity_ack.  No reply is an
\* activity_check.
C28_OneReplyOfAllowedType ==
    [][rx'.op # "none" =>
         /\ Cardinality(tx') <= 1
         /\ ToSender
         /\ "activity_check" \notin SentTypes
         /\ rx'.op = "register" =>
              SentTypes \subseteq {"register_ack", "register_denied"}
         /\ rx'.op = "data" =>
              SentTypes \subseteq {"data_ack", "invalid_token", "request_resend"}
         /\ rx'.op = "activity_ack" => tx' = {}]_vars

\* a data message with a wrong checksum has drawn its one reply
C28_Witness ==
    /\ rx.op = "data"
    /\ Cardinality(tx) = 1
    /\ \E d \in tx : d[1] = rx.addr /\ d[2].type = "request_resend"

\* C29: an identity is the active identity of at most one category: no two
\* distinct categories have the same active identity
C29_ActiveInOneCategory ==
    \A c1, c2 \in DOMAIN active_by_type :
        active_by_type[c1] = active_by_type[c2] => c1 = c2

---------------------------------------------------------------------------
(* A sensor that registers and then says nothing, with the order of what   *)
(* the server produces for it kept.  The monitor thread is scheduled again *)
(* and again and time does not stop.                                       *)

\* the same start, for a run that keeps the log
InitLog == Start /\ g_history = {"log"}

\* the one register request of the sensor
SilentRegister ==
    /\ tokens = Empty
    /\ \E m \in {[type |-> "register", sensor_id |-> i, sensor_type |-> c] :
                    i \in MonIds, c \in MonCategories} :
         listen_loop(m, AddrOf(m))
    /\ UNCHANGED tester

\* a step of the thread of _monitor_loop
MonStep ==
    \/ MonScan
    \/ MonNext
    \/ MonSleep
    \/ MonGet
    \/ MonTimeout
    \/ MonDue
    \/ MonSend
    \/ MonInc

NextSilent ==
    \/ SilentRegister
    \/ MonPass
    \/ MonStep

SpecSilent ==
    InitLog /\ [][NextSilent]_vars /\ WF_vars(MonStep) /\ SF_vars(MonPass)

\* register_ack, then attempts 1 to 10 with a DISCONNECTED after each
SilentLog ==
    [k \in 1..(2 * MaxAttempts + 1) |->
        IF k = 1 THEN <<"register_ack", 0>>
        ELSE IF k % 2 = 0 THEN <<"activity_check", k \div 2>>
        ELSE <<"DISCONNECTED", 0>>]

\* C27: with the monitor scheduled fairly, a sensor that registers once and
\* then sends nothing is in the end sent activity_check with attempts 1 to 10
\* in this order, each followed by one DISCONNECTED line, and after the tenth
\* DISCONNECTED nothing more is sent or printed for it
C27_TenProbesThenSilence ==
    ("T001" \in DOMAIN tokens) ~> [](Get(g_log, "T001", <<>>) = SilentLog)

\* the tenth DISCONNECTED of the silent sensor has been printed
C27_Witness ==
    /\ "T001" \in DOMAIN g_log
    /\ g_log["T001"] = SilentLog
    /\ notes = {<<"DISCONNECTED", "T001">>}

---------------------------------------------------------------------------
(* The same sensor, which may register again: it says nothing but its      *)
(* register requests.                                                      *)

MaxRegistrations == 2       \* the register requests of the sensor in a run

\* the events of one kind in a log
Events(log, kind) == {k \in 1..Len(log) : log[k][1] = kind}

AgainRegister ==
    /\ Cardinality(Events(Get(g_log, "T001", <<>>), "register_ack"))
         < MaxRegistrations
    /\ \E m \in {[type |-> "register", sensor_id |-> i, sensor_type |-> c] :
                    i \in MonIds, c \in MonCategories} :
         listen_loop(m, AddrOf(m))
    /\ UNCHANGED tester

NextAgain ==
    \/ AgainRegister
    \/ MonPass
    \/ MonStep

SpecAgain ==
    InitLog /\ [][NextAgain]_vars /\ WF_vars(MonStep) /\ SF_vars(MonPass)

\* the longest log of a run: no message resets the attempts
LogSpan == MaxRegistrations + 2 * MaxAttempts

\* event n of the log of T001 is its latest one and is an accepted registration
RegisteredAt(n) ==
    /\ Len(Get(g_log, "T001", <<>>)) = n
    /\ g_log["T001"][n][1] = "register_ack"

\* after event n, T001 was sent an activity_check or registered again
AnsweredAfter(n) ==
    \E k \in Events(Get(g_log, "T001", <<>>), "activity_check")
               \cup Events(Get(g_log, "T001", <<>>), "register_ack") : k > n

\* C30: with the monitor scheduled fairly, a sensor that says nothing after
\* its latest accepted registration is in the end sent an activity_check,
\* whatever probe state it had before that registration
C30_ProbedAfterRegistration ==
    \A n \in 1..LogSpan : RegisteredAt(n) ~> AnsweredAfter(n)

---------------------------------------------------------------------------
(* src/backup_server.py, the earlier revision of the server.  Its fields   *)
(* are those of server.py and are kept in the same variables; its tokens   *)
(* are strings.  One iteration of the for loop of its monitor is one step: *)
(* what is looked at here is what its handlers do to one message.          *)

\* token = f"TOKEN_{int(time.time())}": a registration in the second the
\* server started, and one a second later
BackupTokens == {"TOKEN_100", "TOKEN_101"}

\* backup_server.Server.handle_register
backup_handle_register(message, addr) ==
    LET sensor_id == Get(message, "sensor_id", None)
        sensor_type == Get(message, "sensor_type", "UNKNOWN")
        active_id == Get(active_by_type, sensor_type, None)
    IN  /\ Handled("register", message, addr)
        /\ notes' = {}
        /\ IF NotStr(sensor_id)
           THEN /\ tx' = {}
                /\ Untouched
           ELSE IF active_id # None /\ active_id # sensor_id
           THEN /\ tx' = {<<addr, [type |-> "register_denied",
                                   reason |-> "type_busy",
                                   sensor_type |-> sensor_type,
                                   active_sensor_id |-> active_id,
                                   timestamp |-> clock]>>}
                /\ Untouched
           ELSE \E token \in BackupTokens :
                   /\ tokens' = Put(tokens, sensor_id, token)
                   /\ sensor_addr' = Put(sensor_addr, sensor_id, addr)
                   /\ active_by_type' = Put(active_by_type, sensor_type, sensor_id)
                   /\ last_seen' = Put(last_seen, sensor_id, clock)
                   /\ id_type' = Put(id_type, sensor_id, sensor_type)
                   /\ tx' = {<<addr, [type |-> "register_ack",
                                      sensor_id |-> sensor_id,
                                      token |-> token,
                                      timestamp |-> clock]>>}
                   /\ UNCHANGED last_resend_req
                   /\ KeepProbe

\* backup_server.Server.handle_data
backup_handle_data(message, addr) ==
    LET sensor_id == Get(message, "sensor_id", None)
        sensor_type == Get(message, "sensor_type", "UNKNOWN")
        token == Get(message, "token", None)
        data == Get(message, "data", <<>>)
        recv_crc == Get(message, "crc32", JNone)
    IN  /\ Handled("data", message, addr)
        /\ last_seen' = Put(last_seen, sensor_id, clock)
        /\ id_type' = Put(id_type, sensor_id, sensor_type)
        /\ PopProbe(sensor_id)
        /\ notes' = Reconnected(sensor_id)
        /\ UNCHANGED <<tokens, active_by_type, last_resend_req>>
        /\ IF NotStr(sensor_id) \/ NotStr(token)
           THEN /\ tx' = DataReply("invalid_token", sensor_id, addr)
                /\ UNCHANGED sensor_addr
           ELSE IF Get(tokens, sensor_id, None) # token
           THEN /\ tx' = DataReply("invalid_token", sensor_id, addr)
                /\ UNCHANGED sensor_addr
           ELSE /\ sensor_addr' = Put(sensor_addr, sensor_id, addr)
                /\ IF \* recv_crc != calc_crc: True equals 1, a string or
                      \* None equals no integer
                      ~(recv_crc.kind \in {"int", "bool"}
                        /\ recv_crc.val = CrcTable[data])
                   THEN tx' = DataReply("request_resend", sensor_id, addr)
                   ELSE tx' = DataReply("data_ack", sensor_id, addr)

\* backup_server.Server.handle_activity_ack
backup_handle_activity_ack(message, addr) ==
    LET sensor_id == Get(message, "sensor_id", None)
        token == Get(message, "token", None)
    IN  /\ Handled("activity_ack", message, addr)
        /\ tx' = {}
        /\ IF NotStr(sensor_id) \/ Get(tokens, sensor_id, None) # token
           THEN /\ notes' = {}
                /\ Untouched
           ELSE /\ last_seen' = Put(last_seen, sensor_id, clock)
                /\ sensor_addr' = Put(sensor_addr, sensor_id, addr)
                /\ PopProbe(sensor_id)
                /\ notes' = Reconnected(sensor_id)
                /\ UNCHANGED <<tokens, id_type, active_by_type, last_resend_req>>

\* backup_server.Server.listen_loop: one datagram that decoded to an object
backup_listen_loop(message, addr) ==
    /\ listen_pc = "recv"
    /\ UNCHANGED <<listen_pc, menu>>
    /\ IF Get(message, "type", None) = "register"
       THEN backup_handle_register(message, addr)
       ELSE IF Get(message, "type", None) = "data"
       THEN backup_handle_data(message, addr)
       ELSE IF Get(message, "type", None) = "activity_ack"
       THEN backup_handle_activity_ack(message, addr)
       ELSE /\ rx' = [op |-> "unknown", msg |-> message, addr |-> addr]
            /\ tx' = {}
            /\ notes' = {}
            /\ Untouched
            /\ UNCHANGED <<mon_pc, mon_now, mon_ids, mon_sid, mon_st, mon_addr,
                           clock>>
    /\ Observe

\* backup_server.Server._monitor_loop: the body of the for loop for one sensor
backup_monitor_loop(sensor_id) ==
    LET now == clock
        last == Get(last_seen, sensor_id, now)
        st == Get(probe, sensor_id, NoSt)
        timed == st.waiting /\ now >= st.deadline
        st1 == IF timed
               THEN [st EXCEPT !.waiting = FALSE, !.next = now + ProbeBackoff]
               ELSE st
        addr == Get(sensor_addr, sensor_id, NoAddr)
        due == /\ ~st1.waiting
               /\ st1.attempts < MaxAttempts
               /\ now >= st1.next
               /\ addr # NoAddr
        st2 == IF due
               THEN [st1 EXCEPT !.attempts = @ + 1, !.waiting = TRUE,
                                !.deadline = now + ProbeWait]
               ELSE st1
    IN  /\ sensor_id \in DOMAIN tokens
        /\ now - last >= SilenceLimit
        /\ probe' = Put(probe, sensor_id, st2)
        /\ notes' = IF timed THEN {<<"DISCONNECTED", sensor_id>>} ELSE {}
        /\ tx' = IF due
                 THEN {<<addr, [type |-> "activity_check",
                                sensor_type |-> Get(id_type, sensor_id, "UNKNOWN"),
                                sensor_id |-> sensor_id,
                                token |-> tokens[sensor_id],
                                timestamp |-> now,
                                low_battery |-> FALSE,
                                attempt |-> st1.attempts + 1]>>}
                 ELSE {}
        /\ rx' = NoRx
        /\ UNCHANGED <<tokens, sensor_addr, id_type, active_by_type, last_seen,
                       last_resend_req, monitor, clock, tester, listen_pc, menu>>
        /\ Observe

BackupRecvRegister ==
    /\ \E m \in RegisterMsgs(MonIds, MonCategories) :
         backup_listen_loop(m, AddrOf(m))
    /\ UNCHANGED tester

\* T001 with a stored or another token or none, with a right or a wrong
\* crc32, under either category
BackupRecvData ==
    /\ \E m \in {[type |-> "data", sensor_id |-> i, sensor_type |-> c,
                   token |-> t, data |-> Payload1, crc32 |-> x] :
                     i \in MonIds, c \in Categories, t \in BackupTokens,
                     x \in {GoodCrc(Payload1), BadCrc(Payload1)}}
                 \cup {[type |-> "data", sensor_id |-> i, sensor_type |-> c,
                        data |-> Payload1, crc32 |-> GoodCrc(Payload1)] :
                          i \in MonIds, c \in Categories} :
         backup_listen_loop(m, AddrOf(m))
    /\ UNCHANGED tester

BackupRecvAck ==
    /\ \E m \in {[type |-> "activity_ack", sensor_id |-> i, token |-> t] :
                     i \in MonIds, t \in BackupTokens} :
         backup_listen_loop(m, AddrOf(m))
    /\ UNCHANGED tester

\* the monitor is between two sleeps
BackupMonitor ==
    /\ mon_pc = "sleep"
    /\ \E sensor_id \in MonIds : backup_monitor_loop(sensor_id)

NextBackup ==
    \/ BackupRecvRegister
    \/ BackupRecvData
    \/ BackupRecvAck
    \/ BackupMonitor
    \/ MonPass

SpecBackup == Init /\ [][NextBackup]_vars

\* C31: in backup_server.py a data message whose token is absent or is not
\* the stored one is answered with invalid_token and changes no state: the
\* last-seen time, the stored category and the probe state of its sensor stay
\* as they were, and no RECONNECTED line is printed
C31_BackupInvalidTokenNoMutation ==
    [][(rx'.op = "data" /\ ~RightToken(rx'.msg)) =>
         /\ Sent(tx', "invalid_token") # {}
         /\ UNCHANGED <<last_seen, id_type, probe>>
         /\ \A n \in notes' : n[1] # "RECONNECTED"]_vars

---------------------------------------------------------------------------
(* UAT4 end to end: the simulator with automatic sending on and one        *)
(* registered sensor, which the user pauses once, against server.py with   *)
(* its monitor.  A datagram is handled within the second it was sent in,   *)
(* and a round of auto_loop begins every 10 s.                             *)

\* Tester.uat4_activity_check
uat4_activity_check(sid) ==
    /\ paused_sensors' = paused_sensors \cup {sid}
    /\ activity_ping_count' = Put(activity_ping_count, sid, 0)
    /\ ServerIdle
    /\ UNCHANGED <<t_tokens, resend_on_request, pending_last, last_sent_ok,
                   t_inbox, auto_ids>>

\* the user pauses a registered sensor, before any probe has been sent to it
Uat4Pause ==
    \E sid \in TesterIds :
        /\ sid \in DOMAIN t_tokens
        /\ Events(Get(g_log, sid, <<>>), "activity_check") = {}
        /\ uat4_activity_check(sid)

\* auto_loop: while self.sending: t0 = time.monotonic(); for ... in self.sensors
AutoRound ==
    /\ TesterIds \subseteq DOMAIN t_tokens
    /\ auto_ids = {}
    /\ clock - auto_t0 >= AutoPeriod
    /\ auto_t0' = clock
    /\ auto_ids' = TesterIds
    /\ rx' = NoRx
    /\ tx' = {}
    /\ notes' = {}
    /\ UNCHANGED <<server, monitor, clock, listen_pc, menu, t_tokens,
                   resend_on_request, pending_last, last_sent_ok, t_inbox,
                   paused_sensors, activity_ping_count, checksum,
                   g_resend, g_probed, g_attempt, g_check_at, g_disc_at,
                   g_await, g_history, g_records, g_renewed, g_log>>

\* the round sends the data message of a sensor that is not paused
Uat4AutoSend ==
    \E i \in auto_ids :
        /\ auto_loop(SensorType(i), i, Payload1)
        /\ auto_ids' = auto_ids \ {i}

\* if s_id in self.paused_sensors: continue
Uat4AutoSkip ==
    /\ \E i \in auto_ids \cap paused_sensors : auto_ids' = auto_ids \ {i}
    /\ ServerIdle
    /\ UNCHANGED <<t_tokens, resend_on_request, pending_last, last_sent_ok,
                   t_inbox, paused_sensors, activity_ping_count>>

\* a second passes once the datagrams sent have been handled and the round of
\* auto_loop, if one is due, has been made
Uat4Pass ==
    /\ TesterIds \subseteq DOMAIN t_tokens
    /\ t_inbox = {}
    /\ auto_ids = {}
    /\ clock - auto_t0 < AutoPeriod
    /\ Elapse(SilenceLimit)


NextUat4 ==
    \/ TesterRegister
    \/ Uat4Pause
    \/ AutoRound
    \/ Uat4AutoSend
    \/ Uat4AutoSkip
    \/ TesterReceive
    \/ Uat4Pass
    \/ MonScan
    \/ MonNext
    \/ MonSleep
    \/ MonGet
    \/ MonTimeout
    \/ MonDue
    \/ MonSendTo(TRUE)
    \/ MonInc

SpecUat4 == InitLog /\ [][NextUat4]_vars

\* what the server produces for the paused sensor: two probes left
\* unanswered, the third answered
Uat4Log ==
    <<  <<"register_ack", 0>>,
        <<"activity_check", 1>>, <<"DISCONNECTED", 0>>,
        <<"activity_check", 2>>, <<"DISCONNECTED", 0>>,
        <<"activity_check", 3>>, <<"RECONNECTED", 0>>  >>

\* the simulator takes an activity_check of a paused sensor from its socket
HandlesCheck(sid) ==
    /\ sid \in paused_sensors
    /\ \E msg \in t_inbox \ t_inbox' :
          msg.type = "activity_check" /\ msg.sensor_id = sid

\* C32: in the UAT4 run the simulator leaves the first two activity_check of
\* the paused sensor unanswered and answers the third with an activity_ack
\* that carries the sensor's token, and unpauses it; the server prints
\* DISCONNECTED for each unanswered probe, prints RECONNECTED once, and sends
\* the sensor no probe after that while its data messages arrive
C32_Uat4Flow ==
    /\ [](/\ Len(Get(g_log, "T001", <<>>)) <= Len(Uat4Log)
          /\ \A k \in 1..Len(Get(g_log, "T001", <<>>)) :
                g_log["T001"][k] = Uat4Log[k])
    /\ [][\A sid \in TesterIds :
            /\ HandlesCheck(sid) =>
                 IF Get(activity_ping_count, sid, 0) + 1 < AckOnPing
                 THEN rx'.op = "none" /\ sid \in paused_sensors'
                 ELSE /\ rx'.op = "activity_ack"
                      /\ rx'.msg.sensor_id = sid
                      /\ rx'.msg.token = t_tokens[sid]
                      /\ sid \notin paused_sensors'
            /\ (rx'.op = "activity_ack" /\ rx'.msg.sensor_id = sid) =>
                 /\ HandlesCheck(sid)
                 /\ Get(activity_ping_count, sid, 0) = AckOnPing - 1]_vars

=============================================================================
